---- MODULE Spec2Model ----
(***************************************************************************)
(* Ducker Native: the scene store, the clip/container stack, the           *)
(* dirty-sort batcher and the shadow pass of src/DuckerNative.cpp, as a    *)
(* state machine over the fields of RendererState.                         *)
(*                                                                         *)
(* Conventions.                                                            *)
(*  - float values are modelled by the integers they hold exactly; colour  *)
(*    components and opacities are in hundredths. Float arithmetic on      *)
(*    integers below 2^24 is exact; where the model lets a value grow      *)
(*    beyond that (the clip stack), the sum or difference is rounded to    *)
(*    the nearest float (Fl).                                              *)
(*  - sequences are 1-based: objectIdToIndex[id] = i means C++ index i-1.  *)
(*  - `state == nullptr` is initialized = FALSE; the fields of the         *)
(*    RendererState then hold the values its constructor would give.       *)
(*  - glLog is the list of GL commands issued by the most recent API call, *)
(*    call names that call and what it returned.                           *)
(***************************************************************************)
EXTENDS Integers, Sequences, FiniteSets, TLC

(***************************************************************************)
(* Bounds of the model.                                                    *)
(***************************************************************************)
\* largest object id the model lets AddObjectInternal issue
MaxObjectId == 4
\* largest number of objects the model keeps in the pool
MaxObjects == 3
\* largest z-index passed to Add*
MaxZ == 2
\* deepest container nesting of the clip specification
MaxDepth == 3
\* largest coordinate / extent passed to BeginContainer in the clip specification
MaxCoord == 2
\* number of custom shaders the model lets CreateShader register
MaxCustomShaders == 2
\* number of fonts the model lets LoadFont register
MaxFonts == 2
\* GL texture names the model's driver hands out: 1..MaxTexName
MaxTexName == 2
\* largest pool of the draw specification
MaxDrawObjects == 2
\* largest pool of the clip and of the lifecycle specification
MaxSmallPool == 1

(***************************************************************************)
(* Program constants.                                                      *)
(***************************************************************************)
FirstCustomShaderId == 100
FirstFontId == 1
FirstObjectId == 1
IdWidth == 32
LineShaderId == 5
QuadVertices == 6
\* significant bits of a float (IEEE-754 single)
FloatMantissaBits == 24

Pow2(n) == 2 ^ n

\* uint32_t arithmetic of the id counters. 2^32 does not fit TLC's integers:
\* the counter wraps to 0 after 2^32 - 1, which is (2^16 * 2^16) - 1.
\* a counter that is read but not advanced
Inc32Stuck(v) == v
Inc32(v) == IF v \div Pow2(IdWidth \div 2) = Pow2(IdWidth \div 2) - 1
               /\ v % Pow2(IdWidth \div 2) = Pow2(IdWidth \div 2) - 1
            THEN 0 ELSE v + 1

\* the counter after n increments
RECURSIVE Inc32N(_, _)
Inc32N(v, n) == IF n = 0 THEN v ELSE Inc32N(Inc32(v), n - 1)

Max(a, b) == IF a < b THEN b ELSE a
Min(a, b) == IF b < a THEN b ELSE a

RECURSIVE SumSeq(_)
SumSeq(s) == IF s = <<>> THEN 0 ELSE Head(s) + SumSeq(Tail(s))

RECURSIVE Flatten(_)
Flatten(ss) == IF ss = <<>> THEN <<>> ELSE Head(ss) \o Flatten(Tail(ss))

Range(s) == {s[i] : i \in 1..Len(s)}

(***************************************************************************)
(* Vec2, RectF.                                                            *)
(***************************************************************************)
Vec2(x, y) == [x |-> x, y |-> y]
RectF(x, y, w, h) == [x |-> x, y |-> y, w |-> w, h |-> h]

(***************************************************************************)
(* The bytes of a float, as memcmp sees them (IEEE-754 single, little      *)
(* endian), for the integer values the model uses.                         *)
(***************************************************************************)
Abs(v) == IF v < 0 THEN -v ELSE v

RECURSIVE Log2Floor(_)
Log2Floor(v) == IF v <= 1 THEN 0 ELSE 1 + Log2Floor(v \div 2)

\* the float nearest to the integer v (round to nearest, ties to even): what a
\* float addition or subtraction whose exact result is v yields
Fl(v) ==
    LET a == Abs(v)
        e == Log2Floor(a)
    IN  IF e < FloatMantissaBits THEN v
        ELSE LET q == Pow2(e - (FloatMantissaBits - 1))
                 lo == (a \div q) * q
                 r == a - lo
                 near == IF 2 * r < q THEN lo
                         ELSE IF 2 * r > q THEN lo + q
                         ELSE IF (lo \div q) % 2 = 0 THEN lo ELSE lo + q
             IN  IF v < 0 THEN -near ELSE near

\* <<b0, b1, b2, b3>>, lowest address first; v is a float (v = Fl(v))
FloatBytes(v) ==
    IF v = 0 THEN <<0, 0, 0, 0>>
    ELSE LET a == Abs(v)
             e == Log2Floor(a)
             ex == e + 127
             m == IF e < FloatMantissaBits THEN (a - Pow2(e)) * Pow2(FloatMantissaBits - 1 - e)
                  ELSE (a - Pow2(e)) \div Pow2(e - (FloatMantissaBits - 1))
             sign == IF v < 0 THEN 128 ELSE 0
         IN  << m % 256,
                (m \div 256) % 256,
                (ex % 2) * 128 + (m \div 65536),
                sign + (ex \div 2) >>

RectBytes(r) == FloatBytes(r.x) \o FloatBytes(r.y) \o FloatBytes(r.w) \o FloatBytes(r.h)

\* memcmp: the sign of the first differing byte, 0 if none differs
RECURSIVE MemCmp(_, _)
MemCmp(a, b) ==
    IF a = <<>> THEN 0
    ELSE IF Head(a) < Head(b) THEN -1
    ELSE IF Head(a) > Head(b) THEN 1
    ELSE MemCmp(Tail(a), Tail(b))

(***************************************************************************)
(* ObjectType, in declaration order: static_cast<uint32_t>(type) is        *)
(* TypeOrd(type).                                                          *)
(***************************************************************************)
ObjectTypes == <<"Rect", "RoundedRect", "Circle", "Glyph", "Line">>

TypeOrd(t) == (CHOOSE i \in 1..Len(ObjectTypes) : ObjectTypes[i] = t) - 1

\* LineMode, in declaration order
LineModeOrd(m) == IF m = "Straight" THEN 0 ELSE 1

\* std::map: an empty map, operator[] assignment, erase
EmptyMap == [k \in {} |-> 0]
MapPut(f, k, v) == [x \in DOMAIN f \cup {k} |-> IF x = k THEN v ELSE f[x]]
\* an erase that is forgotten
MapEraseForgotten(f, k) == f
MapErase(f, k) == [x \in DOMAIN f \ {k} |-> f[x]]

White == <<100, 100, 100, 100>>
NoColor == <<0, 0, 0, 0>>

\* a uniform value: its type tag and its payload
Uniform(type, data) == [type |-> type, data |-> data]

\* struct RenderObject with its default member initializers. The members without
\* one (id, type, bounds, scissorRect, start, end) are set by every Add* before the
\* object is stored, except start/end of a non-Line, which nothing reads.
\* boundsDen is the denominator of the four numbers of bounds (1 but for a
\* Curved line, whose extent is no integer).
DefaultObject ==
    [ id |-> 0, type |-> "Rect", visible |-> TRUE, zIndex |-> 0,
      bounds |-> RectF(0, 0, 0, 0), color |-> White,
      textureId |-> 0, shaderId |-> 0,
      scissorRect |-> RectF(0, 0, 0, 0), uvRect |-> RectF(0, 0, 1, 1),
      borderWidth |-> 0, borderColor |-> NoColor,
      uniforms |-> EmptyMap,
      elevation |-> 0, rotation |-> 0, rotationOrigin |-> Vec2(50, 50),
      start |-> Vec2(0, 0), end |-> Vec2(0, 0), controlPoints |-> <<>>,
      lineWidth |-> 1, lineMode |-> "Straight", triCount |-> 2,
      boundsDen |-> 1 ]

\* the shader an object is drawn with: its override, else the built-in of its type
EffectiveShader(o) ==
    IF o.shaderId # 0 THEN o.shaderId
    ELSE IF o.type = "Line" THEN LineShaderId ELSE TypeOrd(o.type) + 1

(***************************************************************************)
(* The state: the fields of RendererState (initialized .. containerStack), *)
(* the GL texture names alive in the driver, the ids issued since          *)
(* Initialize, the GL commands of the most recent call and that call.      *)
(***************************************************************************)
VARIABLES initialized, screenWidth, screenHeight, shaders, nextCustomShaderId,
          nextFontId, fonts, objects, objectIdToIndex, nextObjectId, needsSort,
          scissorStack, containerStack, glTextures, issued, glLog, call

engine == <<initialized, screenWidth, screenHeight, shaders, nextCustomShaderId,
            nextFontId, fonts, objects, objectIdToIndex, nextObjectId, needsSort,
            scissorStack, containerStack>>

vars == <<engine, glTextures, issued, glLog, call>>

\* the call just made: its name, its return value (0 for void) and its out-values
Call(op, ret) == [op |-> op, ret |-> ret, w |-> 0, h |-> 0]
CallSize(op, ret, w, h) == [op |-> op, ret |-> ret, w |-> w, h |-> h]

\* one GL command: what, on which framebuffer, for which object, with which shader
\* id, and the vertex range (glDrawArrays) or the parameter (blur radius, GL name)
Ev(cmd, target, obj, shader, first, count, arg) ==
    [cmd |-> cmd, target |-> target, obj |-> obj, shader |-> shader,
     first |-> first, count |-> count, arg |-> arg]
Gl(cmd, arg) == Ev(cmd, "none", 0, 0, 0, 0, arg)

NoIds == [object |-> <<>>, font |-> <<>>, shader |-> <<>>]

\* ShadowLayer {opacity, yOffset, blurRadius, spread}; state->shadowPresets
Layer(opacity, yOffset, blurRadius, spread) ==
    [opacity |-> opacity, yOffset |-> yOffset, blurRadius |-> blurRadius, spread |-> spread]

ShadowPresets ==
    [e \in 0..5 |->
        CASE e = 0 -> <<>>
          [] e = 1 -> <<Layer(20, 2, 1, -1), Layer(14, 1, 1, 0), Layer(12, 1, 3, 0)>>
          [] e = 2 -> <<Layer(20, 3, 1, -2), Layer(14, 2, 2, 0), Layer(12, 1, 5, 0)>>
          [] e = 3 -> <<Layer(20, 3, 3, -2), Layer(14, 3, 4, 0), Layer(12, 1, 8, 0)>>
          [] e = 4 -> <<Layer(20, 2, 4, -1), Layer(14, 4, 5, 0), Layer(12, 1, 10, 0)>>
          [] e = 5 -> <<Layer(20, 3, 5, -1), Layer(14, 5, 8, 0), Layer(12, 1, 14, 0)>>]

\* the value of every field of a freshly constructed RendererState
Fresh ==
    /\ screenWidth = 0 /\ screenHeight = 0
    /\ shaders = EmptyMap /\ nextCustomShaderId = FirstCustomShaderId
    /\ nextFontId = FirstFontId /\ fonts = EmptyMap
    /\ objects = <<>> /\ objectIdToIndex = EmptyMap /\ nextObjectId = FirstObjectId
    /\ needsSort = FALSE
    /\ scissorStack = <<>> /\ containerStack = <<>>

Init ==
    /\ initialized = FALSE
    /\ Fresh
    /\ glTextures = {}
    /\ issued = NoIds
    /\ glLog = <<>>
    /\ call = Call("none", 0)

\* a call that found state == nullptr (or had nothing to do): nothing changes
Ignored(op, ret) ==
    /\ call' = Call(op, ret)
    /\ glLog' = <<>>
    /\ UNCHANGED <<engine, glTextures, issued>>

(***************************************************************************)
(* Lifecycle.                                                              *)
(***************************************************************************)
\* CreateShaderProgramInternal: the GL program name of a shader that compiled and
\* linked (the model names it after the shader id), 0 if it did not
Program(id, ok) == IF ok THEN id ELSE 0

\* failed is the set of built-in shaders that the driver refused to compile or
\* link; the call ends with SetScreenSize(w, h)
Initialize(w, h, failed) ==
    IF initialized THEN Ignored("Initialize", 0)
    ELSE /\ initialized' = TRUE
         /\ shaders' = [i \in 1..5 |-> Program(i, i \notin failed)]
         /\ screenWidth' = w
         /\ screenHeight' = h
         /\ glLog' = <<Gl("setup", 0), Gl("resizeFBO", 0)>>
         /\ call' = Call("Initialize", 0)
         /\ UNCHANGED <<nextCustomShaderId, nextFontId, fonts, objects, objectIdToIndex,
                        nextObjectId, needsSort, scissorStack, containerStack,
                        glTextures, issued>>

\* a Clear that drops the objects but leaves the containers open
ClearPoolOnly ==
    IF ~initialized THEN Ignored("Clear", 0)
    ELSE /\ objects' = <<>>
         /\ objectIdToIndex' = EmptyMap
         /\ glLog' = <<>>
         /\ call' = Call("Clear", 0)
         /\ UNCHANGED <<initialized, screenWidth, screenHeight, shaders,
                        nextCustomShaderId, nextFontId, fonts, nextObjectId, needsSort,
                        scissorStack, containerStack, glTextures, issued>>
Clear ==
    IF ~initialized THEN Ignored("Clear", 0)
    ELSE /\ objects' = <<>>
         /\ objectIdToIndex' = EmptyMap
         /\ containerStack' = <<>>
         /\ scissorStack' = <<>>
         /\ glLog' = <<>>
         /\ call' = Call("Clear", 0)
         /\ UNCHANGED <<initialized, screenWidth, screenHeight, shaders,
                        nextCustomShaderId, nextFontId, fonts, nextObjectId, needsSort,
                        glTextures, issued>>

\* Clear, then every font texture and shader program is deleted and the state freed
Shutdown ==
    IF ~initialized THEN Ignored("Shutdown", 0)
    ELSE /\ initialized' = FALSE
         /\ screenWidth' = 0 /\ screenHeight' = 0
         /\ shaders' = EmptyMap /\ nextCustomShaderId' = FirstCustomShaderId
         /\ nextFontId' = FirstFontId /\ fonts' = EmptyMap
         /\ objects' = <<>> /\ objectIdToIndex' = EmptyMap
         /\ nextObjectId' = FirstObjectId /\ needsSort' = FALSE
         /\ scissorStack' = <<>> /\ containerStack' = <<>>
         /\ glTextures' = glTextures \ {fonts[f].textureId : f \in DOMAIN fonts}
         /\ issued' = NoIds
         /\ glLog' = <<Gl("teardown", 0)>>
         /\ call' = Call("Shutdown", 0)

SetScreenSize(w, h) ==
    IF ~initialized THEN Ignored("SetScreenSize", 0)
    ELSE /\ screenWidth' = w
         /\ screenHeight' = h
         /\ glLog' = <<Gl("resizeFBO", 0)>>
         /\ call' = Call("SetScreenSize", 0)
         /\ UNCHANGED <<initialized, shaders, nextCustomShaderId, nextFontId, fonts,
                        objects, objectIdToIndex, nextObjectId, needsSort,
                        scissorStack, containerStack, glTextures, issued>>

(***************************************************************************)
(* Scene store.                                                            *)
(***************************************************************************)
Last(s) == s[Len(s)]

FullScreen(w, h) == RectF(0, 0, w, h)

\* a clip that is always the full screen
InsertionClipFullScreen(stack, w, h) == FullScreen(w, h)
\* the clip rectangle AddObjectInternal gives a new object
InsertionClip(stack, w, h) == IF stack # <<>> THEN Last(stack) ELSE FullScreen(w, h)

\* a lookup that answers with the first pooled object whatever the id
FindObjectFirst(id) == IF ~initialized \/ objects = <<>> THEN 0 ELSE 1
\* FindObject: the index of the object, 0 for nullptr
FindObject(id) ==
    IF ~initialized THEN 0
    ELSE IF id \in DOMAIN objectIdToIndex THEN objectIdToIndex[id] ELSE 0

\* an object stored with its bounds moved by the offset of the open container
StoredTranslated(obj, id, clip) ==
    [obj EXCEPT !.id = id, !.scissorRect = clip,
                !.bounds = IF containerStack = <<>> THEN @
                           ELSE RectF(@.x + containerStack[Len(containerStack)].x,
                                      @.y + containerStack[Len(containerStack)].y, @.w, @.h)]
\* the object as AddObjectInternal stores it
Stored(obj, id, clip) == [obj EXCEPT !.id = id, !.scissorRect = clip]

AddObjectInternal(obj, op) ==
    IF ~initialized THEN Ignored(op, 0)
    ELSE LET id == nextObjectId
             o == Stored(obj, id, InsertionClip(scissorStack, screenWidth, screenHeight))
         IN  /\ nextObjectId' = Inc32(nextObjectId)
             /\ objectIdToIndex' = MapPut(objectIdToIndex, id, Len(objects) + 1)
             /\ objects' = Append(objects, o)
             /\ needsSort' = TRUE
             /\ issued' = [issued EXCEPT !.object = Append(@, id)]
             /\ glLog' = <<>>
             /\ call' = Call(op, id)
             /\ UNCHANGED <<initialized, screenWidth, screenHeight, shaders,
                            nextCustomShaderId, nextFontId, fonts, scissorStack,
                            containerStack, glTextures>>

BorderUniforms(u, borderWidth, borderColor) ==
    MapPut(MapPut(u, "borderWidth", Uniform("FLOAT", <<borderWidth>>)),
           "borderColor", Uniform("VEC4", borderColor))

AddRect(bounds, color, zIndex, textureId, uvRect, borderWidth, borderColor) ==
    AddObjectInternal(
        [DefaultObject EXCEPT
            !.type = "Rect", !.bounds = bounds, !.color = color, !.zIndex = zIndex,
            !.textureId = textureId, !.uvRect = uvRect,
            !.borderWidth = borderWidth, !.borderColor = borderColor,
            !.uniforms = BorderUniforms(EmptyMap, borderWidth, borderColor)],
        "AddRect")

AddRoundedRect(bounds, shapeSize, color, cornerRadius, blur, inset, zIndex, textureId, uvRect, borderWidth, borderColor) ==
    AddObjectInternal(
        [DefaultObject EXCEPT
            !.type = "RoundedRect", !.bounds = bounds, !.color = color,
            !.zIndex = zIndex, !.textureId = textureId, !.uvRect = uvRect,
            !.borderWidth = borderWidth, !.borderColor = borderColor,
            !.uniforms = BorderUniforms(
                [n \in {"quadSize", "shapeSize", "cornerRadius", "blur", "inset"} |->
                    CASE n = "quadSize" -> Uniform("VEC2", <<bounds.w, bounds.h>>)
                      [] n = "shapeSize" -> Uniform("VEC2", <<shapeSize.x, shapeSize.y>>)
                      [] n = "cornerRadius" -> Uniform("FLOAT", <<cornerRadius>>)
                      [] n = "blur" -> Uniform("FLOAT", <<blur>>)
                      [] n = "inset" -> Uniform("INT", <<IF inset THEN 1 ELSE 0>>)],
                borderWidth, borderColor)],
        "AddRoundedRect")

AddCircle(bounds, color, radius, blur, inset, zIndex, textureId, borderWidth, borderColor) ==
    AddObjectInternal(
        [DefaultObject EXCEPT
            !.type = "Circle", !.bounds = bounds, !.color = color,
            !.zIndex = zIndex, !.textureId = textureId,
            !.borderWidth = borderWidth, !.borderColor = borderColor,
            !.uniforms = BorderUniforms(
                [n \in {"shapeRadius", "blur", "inset"} |->
                    CASE n = "shapeRadius" -> Uniform("FLOAT", <<radius>>)
                      [] n = "blur" -> Uniform("FLOAT", <<blur>>)
                      [] n = "inset" -> Uniform("INT", <<IF inset THEN 1 ELSE 0>>)],
                borderWidth, borderColor)],
        "AddCircle")

\* swap-with-last removal
RemoveObject(objectId) ==
    IF ~initialized \/ objectId \notin DOMAIN objectIdToIndex
    THEN Ignored("RemoveObject", 0)
    ELSE LET indexToRemove == objectIdToIndex[objectId]
             swap == Len(objects) > 1 /\ indexToRemove < Len(objects)
             lastObject == Last(objects)
             moved == IF swap THEN [objects EXCEPT ![indexToRemove] = lastObject]
                      ELSE objects
             remapped == IF swap THEN MapPut(objectIdToIndex, lastObject.id, indexToRemove)
                         ELSE objectIdToIndex
         IN  /\ objects' = SubSeq(moved, 1, Len(moved) - 1)
             /\ objectIdToIndex' = MapErase(remapped, objectId)
             /\ glLog' = <<>>
             /\ call' = Call("RemoveObject", 0)
             /\ UNCHANGED <<initialized, screenWidth, screenHeight, shaders,
                            nextCustomShaderId, nextFontId, fonts, nextObjectId,
                            needsSort, scissorStack, containerStack, glTextures, issued>>

(***************************************************************************)
(* Line geometry. all_points is [start, controls..., end]. A Curved line is *)
(* tessellated into NumPerSegment samples per window; the samples are kept *)
(* exactly, as numerators over CurveDen.                                   *)
(***************************************************************************)
NumPerSegment == 20
\* 2 * (NumPerSegment - 1)^3 for the Catmull-Rom basis, times 4 for the
\* synthesized midpoint (half the sum, a quarter of the direction)
CurveDen == 4 * 2 * (NumPerSegment - 1) * (NumPerSegment - 1) * (NumPerSegment - 1)

\* a point list that leaves the control points out
AllPointsEndsOnly(start, end, controls) == <<start, end>>
AllPoints(start, end, controls) == <<start>> \o controls \o <<end>>

\* the control polygon of a Curved line, in quarters: with no control points and
\* start # end one midpoint is synthesized, offset by perp * len / 4
CurvePolygon4(start, end, controls) ==
    IF controls = <<>> /\ start # end
    THEN << Vec2(4 * start.x, 4 * start.y),
            Vec2(2 * (start.x + end.x) - (end.y - start.y),
                 2 * (start.y + end.y) + (end.x - start.x)),
            Vec2(4 * end.x, 4 * end.y) >>
    ELSE [i \in 1..(Len(controls) + 2) |->
            Vec2(4 * AllPoints(start, end, controls)[i].x,
                 4 * AllPoints(start, end, controls)[i].y)]

\* Catmull-Rom sample k (0-based) of the window from poly[i] to poly[i+1]
CatmullRom(poly, i, k) ==
    LET n == Len(poly)
        d == NumPerSegment - 1
        p0 == poly[IF i > 1 THEN i - 1 ELSE 1]
        p1 == poly[i]
        p2 == poly[i + 1]
        p3 == poly[IF i + 1 < n THEN i + 2 ELSE n]
        t1 == k * d * d
        t2 == k * k * d
        t3 == k * k * k
        one == d * d * d
        c0 == -t3 + 2 * t2 - t1
        c1 == 3 * t3 - 5 * t2 + 2 * one
        c2 == -3 * t3 + 4 * t2 + t1
        c3 == t3 - t2
    IN  Vec2(c0 * p0.x + c1 * p1.x + c2 * p2.x + c3 * p3.x,
             c0 * p0.y + c1 * p1.y + c2 * p2.y + c3 * p3.y)

\* every sample of the curve, before the last one is forced to end
CurveRawSamples(start, end, controls) ==
    LET poly == CurvePolygon4(start, end, controls)
        total == (Len(poly) - 1) * NumPerSegment
    IN  [j \in 1..total |->
            CatmullRom(poly, ((j - 1) \div NumPerSegment) + 1, (j - 1) % NumPerSegment)]

\* a tessellation that stops one sample short and never writes the end point
CurveSamplesShort(start, end, controls) ==
    SubSeq(CurveRawSamples(start, end, controls), 1,
           Len(CurveRawSamples(start, end, controls)) - 1)
\* the samples used for geometry: the last one is the literal end point
CurveSamples(start, end, controls) ==
    LET raw == CurveRawSamples(start, end, controls)
    IN  IF raw = <<>> THEN raw
        ELSE [raw EXCEPT ![Len(raw)] = Vec2(CurveDen * end.x, CurveDen * end.y)]

\* the point sequence the thick-line quads are built over, and its denominator
LinePoints(o) ==
    IF o.lineMode = "Straight" THEN AllPoints(o.start, o.end, o.controlPoints)
    ELSE CurveSamples(o.start, o.end, o.controlPoints)

LineDen(o) == IF o.lineMode = "Straight" THEN 1 ELSE CurveDen

\* len < 0.001f: the segment is skipped. With the points as numerators over den
\* that is 1000 * len < den, or 10^6 * (dx^2 + dy^2) < den^2. To stay inside the
\* integers, den^2 is taken apart as 10^6 * k^2 + rest (den = 1000 * k + r):
\* a component longer than k is too long by itself, and the sum of the squares
\* is compared with den^2 / 10^6.
Degenerate(p, q, den) ==
    LET dx == Abs(q.x - p.x)
        dy == Abs(q.y - p.y)
        k == den \div 1000
        r == den % 1000
        rest == 2000 * k * r + r * r
        whole == k * k + rest \div 1000000
    IN  /\ dx <= k /\ dy <= k
        /\ IF rest % 1000000 = 0 THEN dx * dx + dy * dy < whole
           ELSE dx * dx + dy * dy <= whole

\* the number of segments RenderObjects turns into a quad
GeneratedSegments(o) ==
    LET pts == LinePoints(o)
    IN  Cardinality({i \in 1..(Len(pts) - 1) : ~Degenerate(pts[i], pts[i + 1], LineDen(o))})

\* a minimum that is never updated
MinOfKept(s, acc) == acc
\* acc after acc = std::min(acc, s[i]) for every i: the least of acc and the s[i]
MinOf(s, acc) ==
    CHOOSE v \in {acc} \cup {s[i] : i \in 1..Len(s)} :
        \A i \in 1..Len(s) : Min(v, s[i]) = v /\ Min(v, acc) = v
\* acc after acc = std::max(acc, s[i]) for every i
MaxOf(s, acc) ==
    CHOOSE v \in {acc} \cup {s[i] : i \in 1..Len(s)} :
        \A i \in 1..Len(s) : Max(v, s[i]) = v /\ Max(v, acc) = v

\* width must be even: width / 2.0f is then the integer width \div 2.
\* The bounds of a Curved line are numerators over CurveDen (boundsDen).
AddLine(start, end, color, width, mode, controls, zIndex) ==
    LET pts == IF mode = "Straight" THEN AllPoints(start, end, controls)
               ELSE CurveRawSamples(start, end, controls)
        den == IF mode = "Straight" THEN 1 ELSE CurveDen
        xs == [i \in 1..Len(pts) |-> pts[i].x]
        ys == [i \in 1..Len(pts) |-> pts[i].y]
        minX == MinOf(xs, den * start.x)
        maxX == MaxOf(xs, den * start.x)
        minY == MinOf(ys, den * start.y)
        maxY == MaxOf(ys, den * start.y)
        numSegments == IF Len(pts) > 1 THEN Len(pts) - 1 ELSE 0
        half == den * (width \div 2)
    IN  AddObjectInternal(
            [DefaultObject EXCEPT
                !.type = "Line", !.start = start, !.end = end, !.lineWidth = width,
                !.lineMode = mode, !.color = color, !.zIndex = zIndex, !.textureId = 0,
                !.controlPoints = controls,
                !.triCount = numSegments * 2,
                !.bounds = RectF(minX - half, minY - half,
                                 maxX - minX + den * width, maxY - minY + den * width),
                !.boundsDen = den],
            "AddLine")

(***************************************************************************)
(* Render: the sort.                                                       *)
(***************************************************************************)
\* the comparator handed to std::sort
Less(a, b) ==
    IF a.zIndex # b.zIndex THEN a.zIndex < b.zIndex
    ELSE IF EffectiveShader(a) # EffectiveShader(b)
         THEN EffectiveShader(a) < EffectiveShader(b)
    ELSE IF a.textureId # b.textureId THEN a.textureId < b.textureId
    ELSE IF a.type = "Line" /\ b.type = "Line" /\ a.lineMode # b.lineMode
         THEN LineModeOrd(a.lineMode) < LineModeOrd(b.lineMode)
    ELSE IF a.type = "Line" /\ b.type = "Line" /\ a.lineWidth # b.lineWidth
         THEN a.lineWidth < b.lineWidth
    ELSE MemCmp(RectBytes(a.scissorRect), RectBytes(b.scissorRect)) < 0

\* Less over the elements of a pool, by index
LessMatrix(objs) == [i \in 1..Len(objs), j \in 1..Len(objs) |-> Less(objs[i], objs[j])]

\* what std::sort requires of its comparator, on the elements it is given:
\* irreflexive, transitive, and with a transitive incomparability.
\* L is the comparator as a matrix over the indices 1..n.
StrictWeak(L, n) ==
    LET I == 1..n
    IN  /\ \A i \in I : ~L[i, i]
        /\ \A i, j, k \in I : L[i, j] /\ L[j, k] => L[i, k]
        /\ \A i, j, k \in I :
              (~L[i, j] /\ ~L[j, i]) /\ (~L[j, k] /\ ~L[k, j]) => (~L[i, k] /\ ~L[k, i])

IsStrictWeakOrder(objs) == \A L \in {LessMatrix(objs)} : StrictWeak(L, Len(objs))

IndexPermutations(n) == {p \in [1..n -> 1..n] : \A i, j \in 1..n : i < j => p[i] # p[j]}

Permuted(objs, p) == [i \in 1..Len(objs) |-> objs[p[i]]]

\* the index permutations that leave the elements sorted by L: no element is
\* Less than one placed before it
SortedPermutations(L, n) ==
    {p \in IndexPermutations(n) : \A i, j \in 1..n : i < j => ~L[p[j], p[i]]}

\* the pools std::sort may leave: std::sort is not stable, so any arrangement that
\* is sorted by the comparator; with a comparator that is no strict weak order the
\* behaviour is undefined, and any arrangement of the elements may come out
SortOutcomes(objs) ==
    UNION { { Permuted(objs, p) :
                p \in (IF StrictWeak(L, Len(objs)) THEN SortedPermutations(L, Len(objs))
                       ELSE IndexPermutations(Len(objs))) }
            : L \in {LessMatrix(objs)} }

\* a sort whose map rebuild is left out
ReindexSkipped(map, objs, i) == map
\* for (i...) objectIdToIndex[objects[i].id] = i
RECURSIVE Reindex(_, _, _)
Reindex(map, objs, i) ==
    IF i > Len(objs) THEN map ELSE Reindex(MapPut(map, objs[i].id, i), objs, i + 1)

(***************************************************************************)
(* RenderObjects: the vertex buffer and the draw loop.                     *)
(***************************************************************************)
\* the vertices the build loop pushes for an object
VertexCount(o) ==
    IF ~o.visible THEN 0
    ELSE IF o.type = "Line" THEN QuadVertices * GeneratedSegments(o)
    ELSE QuadVertices

\* the vertex count of the object's glDrawArrays
DrawCount(o) == IF o.type = "Line" THEN o.triCount * 3 ELSE QuadVertices

\* where the build loop put the vertices of objs[i]: <<first, count>>
VertexRange(objs, i) ==
    << SumSeq([j \in 1..(i - 1) |-> VertexCount(objs[j])]), VertexCount(objs[i]) >>

SameBatch(obj, firstInBatch) ==
    /\ obj.visible
    /\ EffectiveShader(obj) = EffectiveShader(firstInBatch)
    /\ obj.textureId = firstInBatch.textureId
    /\ MemCmp(RectBytes(obj.scissorRect), RectBytes(firstInBatch.scissorRect)) = 0
    /\ (obj.type = "Line" /\ firstInBatch.type = "Line"
           => obj.lineMode = firstInBatch.lineMode /\ obj.lineWidth = firstInBatch.lineWidth)

\* the index after the last object of the batch that starts at i
RECURSIVE BatchEnd(_, _, _)
BatchEnd(objs, i, batchEnd) ==
    IF batchEnd <= Len(objs) /\ SameBatch(objs[batchEnd], objs[i])
    THEN BatchEnd(objs, i, batchEnd + 1)
    ELSE batchEnd

\* the built-in fragment shaders that declare `uniform float borderWidth` (those
\* of RoundedRect and Circle): for every other program glGetUniformLocation gives
\* -1 and the upload is dropped. The custom shaders of the model do not declare it.
DeclaresBorderWidth(shaderId) == shaderId \in {2, 3}

\* what the program holds when the object's glDrawArrays runs: useTexture, the
\* texture bound, and the border width, which is set from obj.borderWidth and
\* then set again by the upload of obj.uniforms (a FLOAT entry "borderWidth")
Uploaded(obj, shaderId) ==
    [ useTexture |-> obj.textureId # 0,
      texture |-> obj.textureId,
      borderWidth |->
          IF ~DeclaresBorderWidth(shaderId) THEN 0
          ELSE IF "borderWidth" \in DOMAIN obj.uniforms
                  /\ obj.uniforms["borderWidth"].type = "FLOAT"
                  /\ obj.uniforms["borderWidth"].data # <<>>
               THEN obj.uniforms["borderWidth"].data[1]
          ELSE obj.borderWidth ]

\* a batch drawn with a single glDrawArrays over the vertices of all its objects
BatchDrawsOnce(objs, j, batchEnd, vertexOffset, shaderId, target) ==
    IF j >= batchEnd THEN <<>>
    ELSE <<Ev("glDrawArrays", target, objs[j].id, shaderId, vertexOffset,
              SumSeq([k \in 1..(batchEnd - j) |-> DrawCount(objs[j + k - 1])]), j)>>
\* the glDrawArrays of objs[j..batchEnd-1], the first one at vertexOffset
RECURSIVE BatchDraws(_, _, _, _, _, _)
BatchDraws(objs, j, batchEnd, vertexOffset, shaderId, target) ==
    IF j >= batchEnd THEN <<>>
    ELSE IF ~objs[j].visible
         THEN BatchDraws(objs, j + 1, batchEnd, vertexOffset, shaderId, target)
    ELSE <<Ev("glUniforms", target, objs[j].id, shaderId, 0, 0,
              Uploaded(objs[j], shaderId)),
           Ev("glDrawArrays", target, objs[j].id, shaderId, vertexOffset,
              DrawCount(objs[j]), j)>>
         \o BatchDraws(objs, j + 1, batchEnd, vertexOffset + DrawCount(objs[j]),
                       shaderId, target)

\* the box handed to glScissor for a clip rectangle: GL counts y from the bottom
ScissorBox(r) == RectF(r.x, screenHeight - (r.y + r.h), r.w, r.h)

\* the draw loop from index i on
RECURSIVE DrawLoop(_, _, _, _, _)
DrawLoop(objs, sh, i, vertexOffset, target) ==
    IF i > Len(objs) THEN <<>>
    ELSE IF ~objs[i].visible THEN DrawLoop(objs, sh, i + 1, vertexOffset, target)
    ELSE LET shaderIdForBatch == EffectiveShader(objs[i])
         IN  IF shaderIdForBatch \notin DOMAIN sh \/ sh[shaderIdForBatch] = 0
             THEN DrawLoop(objs, sh, i + 1, vertexOffset, target)
             ELSE LET batchEnd == BatchEnd(objs, i, i)
                      draws == BatchDraws(objs, i, batchEnd, vertexOffset,
                                          shaderIdForBatch, target)
                      drawn == SumSeq([d \in 1..Len(draws) |-> draws[d].count])
                  IN  <<Ev("glUseProgram", target, objs[i].id, shaderIdForBatch,
                           0, 0, sh[shaderIdForBatch]),
                        Ev("glScissor", target, objs[i].id, shaderIdForBatch, 0, 0,
                           ScissorBox(objs[i].scissorRect))>>
                      \o draws
                      \o DrawLoop(objs, sh, batchEnd, vertexOffset + drawn, target)

RenderObjects(objs, sh, target) ==
    <<Ev("glBufferData", target, 0, 0, 0,
         SumSeq([j \in 1..Len(objs) |-> VertexCount(objs[j])]), 0)>>
    \o DrawLoop(objs, sh, 1, 0, target)

(***************************************************************************)
(* Render: the shadow pass.                                                *)
(***************************************************************************)
\* float j (1-based) of a uniform's payload as memcpy reads it; reading a uniform
\* that is missing or shorter than the read is undefined: junk stands for what
\* the read finds
ReadFloat(u, name, j, junk) ==
    IF name \in DOMAIN u /\ j <= Len(u[name].data) THEN u[name].data[j] ELSE junk

\* memcpy of floats over the payload of uniforms[name] (operator[] creates the
\* entry if it is missing); the payload keeps its size
WriteFloats(u, name, floats) ==
    IF name \in DOMAIN u
    THEN [u EXCEPT ![name].data = [j \in 1..Len(@) |-> IF j <= Len(floats) THEN floats[j] ELSE @[j]]]
    ELSE MapPut(u, name, Uniform("FLOAT", <<>>))

\* the clone of obj for one layer of its preset
ShadowClone(obj, layer, w, h, junk) ==
    LET s == layer.spread
        b == RectF(obj.bounds.x - s, obj.bounds.y + layer.yOffset - s,
                   obj.bounds.w + 2 * s, obj.bounds.h + 2 * s)
        u0 == MapPut(obj.uniforms, "quadSize", Uniform("VEC2", <<b.w, b.h>>))
        u1 == IF obj.type = "RoundedRect"
              THEN WriteFloats(
                     WriteFloats(u0, "shapeSize",
                                 << ReadFloat(u0, "shapeSize", 1, junk) + 2 * s,
                                    ReadFloat(u0, "shapeSize", 2, junk) + 2 * s >>),
                     "cornerRadius", << ReadFloat(u0, "cornerRadius", 1, junk) + s >>)
              ELSE IF obj.type = "Circle"
              THEN WriteFloats(u0, "shapeRadius",
                               << ReadFloat(u0, "shapeRadius", 1, junk) + s >>)
              ELSE u0
    IN  [obj EXCEPT !.color = <<0, 0, 0, layer.opacity>>, !.bounds = b,
                    !.uniforms = u1, !.textureId = 0, !.borderWidth = 0,
                    !.shaderId = 0, !.scissorRect = FullScreen(w, h)]

CastsShadow(obj) ==
    /\ obj.elevation > 0
    /\ obj.visible
    /\ obj.type \in {"RoundedRect", "Circle", "Rect"}
    /\ obj.elevation \in DOMAIN ShadowPresets

\* every clone of the frame with its blur radius, in the order they are made
ShadowClones(objs, w, h, junk) ==
    Flatten([i \in 1..Len(objs) |->
        IF CastsShadow(objs[i])
        THEN [l \in 1..Len(ShadowPresets[objs[i].elevation]) |->
                [radius |-> ShadowPresets[objs[i].elevation][l].blurRadius,
                 obj |-> ShadowClone(objs[i], ShadowPresets[objs[i].elevation][l], w, h, junk)]]
        ELSE <<>>])

\* the keys of blurGroups in the order std::map iterates them
RECURSIVE Ascending(_)
Ascending(S) ==
    IF S = {} THEN <<>>
    ELSE LET m == CHOOSE x \in S : \A y \in S : x <= y
         IN  <<m>> \o Ascending(S \ {m})

\* a single group that takes every clone, whatever its blur radius
BlurGroupAll(clones, radius) == [i \in 1..Len(clones) |-> clones[i].obj]
\* blurGroups[radius]
BlurGroup(clones, radius) ==
    LET sel == SelectSeq(clones, LAMBDA c : c.radius = radius)
    IN  [i \in 1..Len(sel) |-> sel[i].obj]

\* ApplyGaussianBlurAndComposite
ApplyGaussianBlurAndComposite(blurRadius) ==
    IF blurRadius <= 0
    THEN <<Ev("composite", "screen", 0, 1, 0, QuadVertices, blurRadius)>>
    ELSE <<Ev("blurHorizontal", "intermediateFBO", 0, 0, 0, QuadVertices, blurRadius),
           Ev("composite", "screen", 0, 0, 0, QuadVertices, blurRadius)>>

\* the GL commands of the shadow pass
ShadowPass(objs, sh, w, h, junk) ==
    LET clones == ShadowClones(objs, w, h, junk)
        radii == Ascending({clones[i].radius : i \in 1..Len(clones)})
    IN  Flatten([g \in 1..Len(radii) |->
            RenderObjects(BlurGroup(clones, radii[g]), sh, "shadowFBO")
            \o ApplyGaussianBlurAndComposite(radii[g])])

\* a frame that draws the pool before its shadows
FrameMainFirst(objs, sh, w, h, junk) ==
    RenderObjects(objs, sh, "screen") \o ShadowPass(objs, sh, w, h, junk)
\* the GL commands of a frame over the (sorted) pool
Frame(objs, sh, w, h, junk) ==
    ShadowPass(objs, sh, w, h, junk) \o RenderObjects(objs, sh, "screen")

\* a sort step that sorts whether the pool is dirty or not
SortStepAlways(objs, dirty) == SortOutcomes(objs)
\* the pools the sort step of Render may leave
SortStep(objs, dirty) == IF dirty THEN SortOutcomes(objs) ELSE {objs}

\* a Render that leaves the shadow clones of the frame in the pool
RenderPoolsClones(junk) ==
    IF ~initialized \/ objects = <<>> THEN Ignored("Render", 0)
    ELSE \E sorted \in SortStep(objects, needsSort) :
            /\ objects' = sorted \o [i \in 1..Len(ShadowClones(sorted, screenWidth, screenHeight, junk)) |->
                                        ShadowClones(sorted, screenWidth, screenHeight, junk)[i].obj]
            /\ objectIdToIndex' = IF needsSort THEN Reindex(objectIdToIndex, sorted, 1)
                                  ELSE objectIdToIndex
            /\ needsSort' = FALSE
            /\ glLog' = Frame(sorted, shaders, screenWidth, screenHeight, junk)
            /\ call' = Call("Render", 0)
            /\ UNCHANGED <<initialized, screenWidth, screenHeight, shaders,
                           nextCustomShaderId, nextFontId, fonts, nextObjectId,
                           scissorStack, containerStack, glTextures, issued>>
Render(junk) ==
    IF ~initialized \/ objects = <<>> THEN Ignored("Render", 0)
    ELSE \E sorted \in SortStep(objects, needsSort) :
            /\ objects' = sorted
            /\ objectIdToIndex' = IF needsSort THEN Reindex(objectIdToIndex, sorted, 1)
                                  ELSE objectIdToIndex
            /\ needsSort' = FALSE
            /\ glLog' = Frame(sorted, shaders, screenWidth, screenHeight, junk)
            /\ call' = Call("Render", 0)
            /\ UNCHANGED <<initialized, screenWidth, screenHeight, shaders,
                           nextCustomShaderId, nextFontId, fonts, nextObjectId,
                           scissorStack, containerStack, glTextures, issued>>

(***************************************************************************)
(* Set*: in-place mutation of the object FindObject returns.               *)
(***************************************************************************)
\* a mutation that never marks the pool dirty
MutatedNoSort(op, idx, obj, sort) ==
    /\ objects' = [objects EXCEPT ![idx] = obj]
    /\ glLog' = <<>>
    /\ call' = Call(op, 0)
    /\ UNCHANGED <<initialized, screenWidth, screenHeight, shaders, nextCustomShaderId,
                   nextFontId, fonts, objectIdToIndex, nextObjectId, needsSort,
                   scissorStack, containerStack, glTextures, issued>>
\* the object at idx becomes obj; sort tells whether needsSort is set
Mutated(op, idx, obj, sort) ==
    /\ objects' = [objects EXCEPT ![idx] = obj]
    /\ needsSort' = (needsSort \/ sort)
    /\ glLog' = <<>>
    /\ call' = Call(op, 0)
    /\ UNCHANGED <<initialized, screenWidth, screenHeight, shaders, nextCustomShaderId,
                   nextFontId, fonts, objectIdToIndex, nextObjectId, scissorStack,
                   containerStack, glTextures, issued>>

SetObjectCornerRadius(objectId, radius) ==
    LET idx == FindObject(objectId)
    IN  IF idx = 0 THEN Ignored("SetObjectCornerRadius", 0)
        ELSE IF objects[idx].type # "RoundedRect" THEN Ignored("SetObjectCornerRadius", 0)
        ELSE Mutated("SetObjectCornerRadius", idx,
                     [objects[idx] EXCEPT !.uniforms =
                         MapPut(@, "cornerRadius", Uniform("FLOAT", <<radius>>))],
                     FALSE)

SetObjectRotation(objectId, rotation) ==
    LET idx == FindObject(objectId)
    IN  IF idx = 0 THEN Ignored("SetObjectRotation", 0)
        ELSE Mutated("SetObjectRotation", idx,
                     [objects[idx] EXCEPT !.rotation = rotation], FALSE)

SetObjectRotationOrigin(objectId, origin) ==
    LET idx == FindObject(objectId)
    IN  IF idx = 0 THEN Ignored("SetObjectRotationOrigin", 0)
        ELSE Mutated("SetObjectRotationOrigin", idx,
                     [objects[idx] EXCEPT !.rotationOrigin = origin], FALSE)

SetObjectRotationAndOrigin(objectId, rotation, origin) ==
    LET idx == FindObject(objectId)
    IN  IF idx = 0 THEN Ignored("SetObjectRotationAndOrigin", 0)
        ELSE Mutated("SetObjectRotationAndOrigin", idx,
                     [objects[idx] EXCEPT !.rotation = rotation, !.rotationOrigin = origin],
                     FALSE)

SetObjectElevation(objectId, elevation) ==
    LET idx == FindObject(objectId)
    IN  IF idx = 0 THEN Ignored("SetObjectElevation", 0)
        ELSE Mutated("SetObjectElevation", idx,
                     [objects[idx] EXCEPT !.elevation = elevation], TRUE)

SetObjectShader(objectId, shaderId) ==
    LET idx == FindObject(objectId)
    IN  IF idx = 0 THEN Ignored("SetObjectShader", 0)
        ELSE IF objects[idx].shaderId = shaderId THEN Ignored("SetObjectShader", 0)
        ELSE Mutated("SetObjectShader", idx,
                     [objects[idx] EXCEPT !.shaderId = shaderId], TRUE)

\* the number of floats (or ints) a UniformType carries; 0 for a value outside the enum
UniformSize(type) ==
    CASE type = "FLOAT" -> 1 [] type = "VEC2" -> 2 [] type = "VEC3" -> 3
      [] type = "VEC4" -> 4 [] type = "INT" -> 1 [] OTHER -> 0

\* data is the memory the caller points at; the first UniformSize(type) values are copied
SetObjectUniform(objectId, name, type, data) ==
    LET idx == FindObject(objectId)
    IN  IF idx = 0 THEN Ignored("SetObjectUniform", 0)
        ELSE IF UniformSize(type) = 0 THEN Ignored("SetObjectUniform", 0)
        ELSE Mutated("SetObjectUniform", idx,
                     [objects[idx] EXCEPT !.uniforms =
                         MapPut(@, name, Uniform(type, SubSeq(data, 1, UniformSize(type))))],
                     FALSE)

SetObjectBorder(objectId, borderWidth, borderColor) ==
    LET idx == FindObject(objectId)
    IN  IF idx = 0 THEN Ignored("SetObjectBorder", 0)
        ELSE Mutated("SetObjectBorder", idx,
                     [objects[idx] EXCEPT !.borderWidth = borderWidth,
                                          !.borderColor = borderColor,
                                          !.uniforms = BorderUniforms(@, borderWidth, borderColor)],
                     FALSE)

(***************************************************************************)
(* Shaders.                                                                *)
(***************************************************************************)
\* ok: the fragment shader compiled and the program linked
CreateShader(ok) ==
    IF ~initialized THEN Ignored("CreateShader", 0)
    ELSE IF ~ok THEN Ignored("CreateShader", 0)
    ELSE LET id == nextCustomShaderId
         IN  /\ nextCustomShaderId' = Inc32(nextCustomShaderId)
             /\ shaders' = MapPut(shaders, id, Program(id, TRUE))
             /\ issued' = [issued EXCEPT !.shader = Append(@, id)]
             /\ glLog' = <<Gl("glCreateProgram", Program(id, TRUE))>>
             /\ call' = Call("CreateShader", id)
             /\ UNCHANGED <<initialized, screenWidth, screenHeight, nextFontId, fonts,
                            objects, objectIdToIndex, nextObjectId, needsSort,
                            scissorStack, containerStack, glTextures>>

\* a DeleteShader that does not protect the built-in ids
DeleteShaderUnprotected(shaderId) ==
    IF ~initialized THEN Ignored("DeleteShader", 0)
    ELSE IF shaderId \notin DOMAIN shaders THEN Ignored("DeleteShader", 0)
    ELSE /\ shaders' = MapErase(shaders, shaderId)
         /\ glLog' = <<Gl("glDeleteProgram", shaders[shaderId])>>
         /\ call' = Call("DeleteShader", 0)
         /\ UNCHANGED <<initialized, screenWidth, screenHeight, nextCustomShaderId,
                        nextFontId, fonts, objects, objectIdToIndex, nextObjectId,
                        needsSort, scissorStack, containerStack, glTextures, issued>>
DeleteShader(shaderId) ==
    IF ~initialized \/ shaderId < FirstCustomShaderId THEN Ignored("DeleteShader", 0)
    ELSE IF shaderId \notin DOMAIN shaders THEN Ignored("DeleteShader", 0)
    ELSE /\ shaders' = MapErase(shaders, shaderId)
         /\ glLog' = <<Gl("glDeleteProgram", shaders[shaderId])>>
         /\ call' = Call("DeleteShader", 0)
         /\ UNCHANGED <<initialized, screenWidth, screenHeight, nextCustomShaderId,
                        nextFontId, fonts, objects, objectIdToIndex, nextObjectId,
                        needsSort, scissorStack, containerStack, glTextures, issued>>

(***************************************************************************)
(* Textures. The driver hands out any texture name not in use.             *)
(***************************************************************************)
TexNames == 1..MaxTexName

\* ok: stb_image decoded the file; tex: the name glGenTextures returns;
\* w, h: the size of the image
LoadTexture(ok, tex, w, h) ==
    IF ~ok THEN Ignored("LoadTexture", 0)
    ELSE /\ tex \notin glTextures
         /\ glTextures' = glTextures \cup {tex}
         /\ glLog' = <<Gl("glGenTextures", tex), Gl("glTexImage2D", tex)>>
         /\ call' = CallSize("LoadTexture", tex, w, h)
         /\ UNCHANGED <<engine, issued>>

DeleteTexture(textureId) ==
    IF textureId > 0
    THEN /\ glTextures' = glTextures \ {textureId}
         /\ glLog' = <<Gl("glDeleteTextures", textureId)>>
         /\ call' = Call("DeleteTexture", 0)
         /\ UNCHANGED <<engine, issued>>
    ELSE Ignored("DeleteTexture", 0)

(***************************************************************************)
(* Fonts and text.                                                         *)
(***************************************************************************)
\* ok: the file was read and packed; tex: the name glGenTextures returns
LoadFont(ok, size, tex) ==
    IF ~initialized THEN Ignored("LoadFont", 0)
    ELSE IF ~ok THEN Ignored("LoadFont", 0)
    ELSE LET fontId == nextFontId
         IN  /\ tex \notin glTextures
             /\ nextFontId' = Inc32(nextFontId)
             /\ fonts' = MapPut(fonts, fontId, [size |-> size, textureId |-> tex])
             /\ glTextures' = glTextures \cup {tex}
             /\ issued' = [issued EXCEPT !.font = Append(@, fontId)]
             /\ glLog' = <<Gl("glGenTextures", tex), Gl("glTexImage2D", tex)>>
             /\ call' = Call("LoadFont", fontId)
             /\ UNCHANGED <<initialized, screenWidth, screenHeight, shaders,
                            nextCustomShaderId, objects, objectIdToIndex, nextObjectId,
                            needsSort, scissorStack, containerStack>>

DeleteFont(fontId) ==
    IF ~initialized THEN Ignored("DeleteFont", 0)
    ELSE IF fontId \notin DOMAIN fonts THEN Ignored("DeleteFont", 0)
    ELSE /\ fonts' = MapErase(fonts, fontId)
         /\ glTextures' = glTextures \ {fonts[fontId].textureId}
         /\ glLog' = <<Gl("glDeleteTextures", fonts[fontId].textureId)>>
         /\ call' = Call("DeleteFont", 0)
         /\ UNCHANGED <<initialized, screenWidth, screenHeight, shaders,
                        nextCustomShaderId, nextFontId, objects, objectIdToIndex,
                        nextObjectId, needsSort, scissorStack, containerStack, issued>>

\* the byte at position i (1-based) of a C string: the text, its terminator, and
\* then whatever memory follows it (beyond)
ByteAt(text, i) ==
    IF i <= Len(text.bytes) THEN text.bytes[i]
    ELSE IF i = Len(text.bytes) + 1 THEN 0
    ELSE IF i - Len(text.bytes) - 1 <= Len(text.beyond) THEN text.beyond[i - Len(text.bytes) - 1]
    ELSE 0

\* a decoder that takes every byte for a codepoint
Utf8ToCodepointBytewise(text, i) == <<ByteAt(text, i), i + 1>>
\* utf8_to_codepoint at position i: <<codepoint, next position>>
Utf8ToCodepoint(text, i) ==
    LET s0 == ByteAt(text, i)
        s1 == ByteAt(text, i + 1)
        s2 == ByteAt(text, i + 2)
        s3 == ByteAt(text, i + 3)
    IN  IF s0 < 128 THEN <<s0, i + 1>>
        ELSE IF s0 \div 32 = 6 THEN <<(s0 % 32) * 64 + (s1 % 64), i + 2>>
        ELSE IF s0 \div 16 = 14
             THEN <<(s0 % 16) * 4096 + (s1 % 64) * 64 + (s2 % 64), i + 3>>
        ELSE IF s0 \div 8 = 30
             THEN <<(s0 % 8) * 262144 + (s1 % 64) * 4096 + (s2 % 64) * 64 + (s3 % 64), i + 4>>
        ELSE <<63, i + 1>>

\* the index of the codepoint in Font::char_data, -1 if the atlas does not hold it
GlyphIndex(codepoint) ==
    IF codepoint >= 32 /\ codepoint < 128 THEN codepoint - 32
    ELSE IF codepoint >= 1024 /\ codepoint <= 1279 THEN 96 + (codepoint - 1024)
    ELSE -1

\* the codepoints the while (*p) loop decodes from position i on
RECURSIVE Decode(_, _)
Decode(text, i) ==
    IF ByteAt(text, i) = 0 THEN <<>>
    ELSE <<Utf8ToCodepoint(text, i)[1]>> \o Decode(text, Utf8ToCodepoint(text, i)[2])

\* stbtt_GetPackedQuad with the metrics the model gives every glyph of a font:
\* a box of size x size on the baseline, advancing the pen by size
GlyphQuad(font, x, y) ==
    [x0 |-> x, y0 |-> y - font.size, x1 |-> x + font.size, y1 |-> y]

\* cos and sin of the angles the model rotates text by
Cos(deg) == CASE deg % 360 = 0 -> 1 [] deg % 360 = 180 -> -1 [] OTHER -> 0
Sin(deg) == CASE deg % 360 = 90 -> 1 [] deg % 360 = 270 -> -1 [] OTHER -> 0

\* the Glyph object DrawText builds for the n-th drawn glyph (0-based)
GlyphObject(font, index, n, position, color, zIndex, rotation, origin) ==
    LET q == GlyphQuad(font, position.x + n * font.size, position.y)
        rx0 == q.x0 - position.x - origin.x
        ry0 == q.y0 - position.y - origin.y
        rx1 == q.x1 - position.x - origin.x
        ry1 == q.y1 - position.y - origin.y
        c == Cos(rotation)
        sn == Sin(rotation)
        px == position.x + origin.x
        py == position.y + origin.y
        v0 == <<rx0 * c - ry0 * sn + px, rx0 * sn + ry0 * c + py>>
        v1 == <<rx1 * c - ry0 * sn + px, rx1 * sn + ry0 * c + py>>
        v2 == <<rx1 * c - ry1 * sn + px, rx1 * sn + ry1 * c + py>>
        v3 == <<rx0 * c - ry1 * sn + px, rx0 * sn + ry1 * c + py>>
    IN  [DefaultObject EXCEPT
            !.type = "Glyph",
            !.bounds = RectF(v0[1], v0[2], v1[1] - v0[1], v3[2] - v0[2]),
            !.uvRect = RectF(index, 0, index + 1, 1),
            !.uniforms = [nm \in {"v0", "v1", "v2", "v3"} |->
                            CASE nm = "v0" -> Uniform("VEC2", v0)
                              [] nm = "v1" -> Uniform("VEC2", v1)
                              [] nm = "v2" -> Uniform("VEC2", v2)
                              [] nm = "v3" -> Uniform("VEC2", v3)],
            !.color = color, !.zIndex = zIndex, !.textureId = font.textureId]

\* the glyph indices of the codepoints that get an object
DrawnGlyphs(text) ==
    LET cps == Decode(text, 1)
    IN  SelectSeq([i \in 1..Len(cps) |-> GlyphIndex(cps[i])], LAMBDA g : g # -1)

\* text is [null, bytes, beyond]: a null pointer, or the bytes of the string and
\* those that follow its terminator in memory. One AddObjectInternal per glyph.
DrawText(fontId, text, position, color, zIndex, rotation, origin) ==
    IF ~initialized \/ text.null THEN Ignored("DrawText", 0)
    ELSE IF fontId \notin DOMAIN fonts THEN Ignored("DrawText", 0)
    ELSE LET glyphs == DrawnGlyphs(text)
             n == Len(glyphs)
             clip == InsertionClip(scissorStack, screenWidth, screenHeight)
             ids == [k \in 1..n |-> Inc32N(nextObjectId, k - 1)]
             new == [k \in 1..n |->
                        Stored(GlyphObject(fonts[fontId], glyphs[k], k - 1, position,
                                           color, zIndex, rotation, origin),
                               ids[k], clip)]
         IN  /\ objects' = objects \o new
             /\ objectIdToIndex' = Reindex(objectIdToIndex, objects \o new, Len(objects) + 1)
             /\ nextObjectId' = Inc32N(nextObjectId, n)
             /\ needsSort' = (needsSort \/ n > 0)
             /\ issued' = [issued EXCEPT !.object = @ \o ids]
             /\ glLog' = <<>>
             /\ call' = Call("DrawText", 0)
             /\ UNCHANGED <<initialized, screenWidth, screenHeight, shaders,
                            nextCustomShaderId, nextFontId, fonts, scissorStack,
                            containerStack, glTextures>>

\* returns {x, max_y - min_y}: the pen advance and the height of the glyph boxes
GetTextSize(fontId, text) ==
    IF ~initialized THEN Ignored("GetTextSize", 0)
    ELSE IF fontId \notin DOMAIN fonts THEN Ignored("GetTextSize", 0)
    ELSE LET n == Len(DrawnGlyphs(text))
         IN  /\ call' = CallSize("GetTextSize", 0, n * fonts[fontId].size,
                                 IF n > 0 THEN fonts[fontId].size ELSE 0)
             /\ glLog' = <<>>
             /\ UNCHANGED <<engine, glTextures, issued>>

(***************************************************************************)
(* Clip / container stack.                                                 *)
(***************************************************************************)
\* the rectangle BeginContainer pushes onto scissorStack
NewScissor(bounds, offset, stack) ==
    LET x0 == Fl(bounds.x + offset.x)
        y0 == Fl(bounds.y + offset.y)
    IN  IF stack # <<>>
        THEN LET parentScissor == Last(stack)
                 r1 == Fl(x0 + bounds.w)
                 r2 == Fl(parentScissor.x + parentScissor.w)
                 b1 == Fl(y0 + bounds.h)
                 b2 == Fl(parentScissor.y + parentScissor.h)
                 x == Max(x0, parentScissor.x)
                 y == Max(y0, parentScissor.y)
             IN  RectF(x, y, Max(0, Fl(Min(r1, r2) - x)), Max(0, Fl(Min(b1, b2) - y)))
        ELSE RectF(x0, y0, Max(0, bounds.w), Max(0, bounds.h))

ContainerOffset(stack) == IF stack # <<>> THEN Last(stack) ELSE Vec2(0, 0)

BeginContainer(bounds) ==
    IF ~initialized THEN Ignored("BeginContainer", 0)
    ELSE LET offset == ContainerOffset(containerStack)
         IN  /\ containerStack' = Append(containerStack,
                                         Vec2(Fl(bounds.x + offset.x),
                                              Fl(bounds.y + offset.y)))
             /\ scissorStack' = Append(scissorStack, NewScissor(bounds, offset, scissorStack))
             /\ glLog' = <<>>
             /\ call' = Call("BeginContainer", 0)
             /\ UNCHANGED <<initialized, screenWidth, screenHeight, shaders,
                            nextCustomShaderId, nextFontId, fonts, objects,
                            objectIdToIndex, nextObjectId, needsSort, glTextures, issued>>

\* an EndContainer that pops the clip stack and forgets the offset stack
EndContainerClipOnly ==
    IF ~initialized \/ containerStack = <<>> THEN Ignored("EndContainer", 0)
    ELSE /\ scissorStack' = SubSeq(scissorStack, 1, Len(scissorStack) - 1)
         /\ glLog' = <<>>
         /\ call' = Call("EndContainer", 0)
         /\ UNCHANGED <<initialized, screenWidth, screenHeight, shaders,
                        nextCustomShaderId, nextFontId, fonts, objects, objectIdToIndex,
                        nextObjectId, needsSort, containerStack, glTextures, issued>>
EndContainer ==
    IF ~initialized \/ containerStack = <<>> THEN Ignored("EndContainer", 0)
    ELSE /\ containerStack' = SubSeq(containerStack, 1, Len(containerStack) - 1)
         /\ scissorStack' = SubSeq(scissorStack, 1, Len(scissorStack) - 1)
         /\ glLog' = <<>>
         /\ call' = Call("EndContainer", 0)
         /\ UNCHANGED <<initialized, screenWidth, screenHeight, shaders,
                        nextCustomShaderId, nextFontId, fonts, objects,
                        objectIdToIndex, nextObjectId, needsSort, glTextures, issued>>

(***************************************************************************)
(* Specification Spec: the scene store and the sort, on a pool of Rects    *)
(* and Lines.                                                              *)
(***************************************************************************)
UnitBounds == RectF(0, 0, 4, 2)
FullUv == RectF(0, 0, 1, 1)

\* the model's cap on the pool and on the id counter
CanAdd == Len(objects) < MaxObjects /\ nextObjectId <= MaxObjectId

\* a shader id that is never registered
UnregisteredShader == FirstCustomShaderId - 1

Next ==
    \/ Initialize(8, 6, {})
    \/ Shutdown
    \/ Clear
    \/ \E z \in 0..MaxZ : CanAdd /\ AddRect(UnitBounds, White, z, 0, FullUv, 0, NoColor)
    \/ CanAdd /\ AddLine(Vec2(0, 0), Vec2(4, 0), White, 2, "Straight", <<>>, 1)
    \/ \E id \in 0..MaxObjectId : RemoveObject(id)
    \/ \E id \in 1..MaxObjectId, sid \in {0, UnregisteredShader} : SetObjectShader(id, sid)
    \/ Render(0)

Spec == Init /\ [][Next]_vars

\* the most recent call was a Render that drew a frame
Rendered == call.op = "Render" /\ glLog # <<>>

\* the Add* operations that return the id AddObjectInternal issued
AddOps == {"AddRect", "AddRoundedRect", "AddCircle", "AddLine"}

\* C1: on an initialized engine, after any sequence of Add*, RemoveObject, Clear,
\* Set* and Render calls, the keys of the id->index map are exactly the ids of the
\* pooled objects, the indices are in range and distinct, and the object stored at
\* index map[id] has the id; so the object RemoveObject moved resolves to its slot.
C1_MapConsistent ==
    initialized =>
        /\ DOMAIN objectIdToIndex = {objects[i].id : i \in 1..Len(objects)}
        /\ \A id \in DOMAIN objectIdToIndex :
              /\ objectIdToIndex[id] \in 1..Len(objects)
              /\ objects[objectIdToIndex[id]].id = id
        /\ \A a, b \in DOMAIN objectIdToIndex :
              a # b => objectIdToIndex[a] # objectIdToIndex[b]

\* RemoveObject took a non-last object out of a pool of three: the formerly last
\* object (id 3, the highest z-index, so no sort put it first) sits in slot 1 and
\* resolves to it
C1_MovedLastResolves ==
    /\ call.op = "RemoveObject"
    /\ Len(objects) = 2
    /\ objects[1].id = 3
    /\ objects[1].zIndex > objects[2].zIndex
    /\ FindObject(3) = 1

\* C2: N Add* calls followed by RemoveObject of any of the returned ids, in any
\* order: every Add* grows the pool by one and every RemoveObject of a live id
\* shrinks it by one, FindObject then finds nothing for the removed id, and it
\* finds the same object as before for every other live id.
C2_AddsAndRemovals ==
    [][/\ (call'.op \in AddOps /\ call'.ret # 0) =>
            /\ Len(objects') = Len(objects) + 1
            /\ call'.ret \in DOMAIN objectIdToIndex'
            /\ objectIdToIndex'[call'.ret] = Len(objects')
            /\ \A other \in DOMAIN objectIdToIndex :
                  /\ FindObject(other)' # 0
                  /\ objects'[FindObject(other)'] = objects[FindObject(other)]
       /\ \A id \in 1..MaxObjectId :
            (FindObject(id) # 0 /\ RemoveObject(id)) =>
               /\ Len(objects') = Len(objects) - 1
               /\ FindObject(id)' = 0
               /\ \A other \in DOMAIN objectIdToIndex \ {id} :
                     /\ FindObject(other)' # 0
                     /\ objects'[FindObject(other)'] = objects[FindObject(other)]]_vars

\* three objects were added and id 1 removed again (the pool <<3, 2>>, out of
\* z-order, is what only that removal leaves): ids 2 and 3 are found, id 1 is not,
\* in a pool of size 3 - 1
C2_SubsetRemoved ==
    /\ call.op = "RemoveObject"
    /\ issued.object = <<1, 2, 3>>
    /\ Len(objects) = 2
    /\ FindObject(1) = 0
    /\ FindObject(3) = 1 /\ objects[1].id = 3
    /\ FindObject(2) = 2 /\ objects[2].id = 2
    /\ objects[1].zIndex > objects[2].zIndex

\* C4: every Render walks the pool in ascending sort-key order, in particular in
\* non-decreasing z-index order, whatever calls preceded it.
C4_RenderWalksSorted ==
    Rendered =>
        \A i, j \in 1..Len(objects) : i < j =>
            /\ objects[i].zIndex <= objects[j].zIndex
            /\ ~Less(objects[j], objects[i])

(***************************************************************************)
(* Specification SpecDraw: the frame. Rects and Circles, with elevations   *)
(* and shader overrides, on an engine whose built-in Rect shader may have  *)
(* failed to build, with a custom shader that comes and goes.              *)
(***************************************************************************)
CanAddDraw == Len(objects) < MaxDrawObjects /\ nextObjectId <= MaxObjectId

NextDraw ==
    \/ \E failed \in {{}, {1}} : Initialize(8, 6, failed)
    \/ \E z \in 0..1 : CanAddDraw /\ AddRect(UnitBounds, White, z, 0, FullUv, 0, NoColor)
    \/ CanAddDraw /\ AddCircle(UnitBounds, White, 1, 0, FALSE, 0, 0, 0, NoColor)
    \/ nextCustomShaderId < FirstCustomShaderId + MaxCustomShaders /\ CreateShader(TRUE)
    \/ DeleteShader(FirstCustomShaderId)
    \/ \E id \in 1..MaxDrawObjects, sid \in {0, FirstCustomShaderId} : SetObjectShader(id, sid)
    \/ \E id \in 1..MaxDrawObjects, e \in 0..1 : SetObjectElevation(id, e)
    \/ Render(0)

SpecDraw == Init /\ [][NextDraw]_vars

\* the glDrawArrays of the main pass, and its glUseProgram (one per batch)
IsMainDraw(e) == e.cmd = "glDrawArrays" /\ e.target = "screen"
MainDraws == SelectSeq(glLog, IsMainDraw)
IsMainBatch(e) == e.cmd = "glUseProgram" /\ e.target = "screen"
MainBatches == SelectSeq(glLog, IsMainBatch)

\* a command of the shadow pass (a clone rasterised, a group blurred or composited)
\* and a command of the main pass
IsShadowCommand(e) ==
    e.target \in {"shadowFBO", "intermediateFBO"} \/ e.cmd \in {"composite", "blurHorizontal"}
IsMainCommand(e) ==
    e.target = "screen" /\ e.cmd \in {"glBufferData", "glUseProgram", "glDrawArrays"}

\* the object's effective shader id is unregistered or maps to program handle 0
InvalidShader(o) ==
    EffectiveShader(o) \notin DOMAIN shaders \/ shaders[EffectiveShader(o)] = 0

\* two vertex ranges <<first, count>> share a vertex
Overlaps(a, b) == a[2] > 0 /\ b[2] > 0 /\ a[1] < b[1] + b[2] /\ b[1] < a[1] + a[2]

\* C7: an object whose effective shader id is unregistered or maps to handle 0 is
\* skipped entirely by Render: no draw call of the main pass is issued for it and
\* none covers the vertices generated for it.
C7_SkippedNotDrawn ==
    Rendered =>
        \A i \in 1..Len(objects) : InvalidShader(objects[i]) =>
            \A k \in 1..Len(MainDraws) :
                /\ MainDraws[k].obj # objects[i].id
                /\ ~Overlaps(<<MainDraws[k].first, MainDraws[k].count>>,
                             VertexRange(objects, i))

\* C8: in every Render all commands of the shadow pass (rasterise, blur, composite
\* of every group) come before the first command of the main pass.
C8_ShadowsBeforeMain ==
    Rendered =>
        \A i, j \in 1..Len(glLog) :
            IsMainCommand(glLog[i]) /\ IsShadowCommand(glLog[j]) => j < i

\* a frame with a shadow clone rasterised, a group composited and a main draw
C8_ShadowAndMainDrawn ==
    /\ Rendered
    /\ \E k \in 1..Len(glLog) : glLog[k].cmd = "glDrawArrays" /\ glLog[k].target = "shadowFBO"
    /\ \E k \in 1..Len(glLog) : glLog[k].cmd = "composite"
    /\ MainDraws # <<>>

BigCoord == Pow2(FloatMantissaBits)

ClipBounds ==
    {RectF(0, 0, 3, 3), RectF(MaxCoord, MaxCoord, 3, 3),
     RectF(MaxCoord, MaxCoord, -1, -1), RectF(BigCoord, BigCoord, 3, 3)}

ScreenSizes == {<<8, 6>>, <<4, 4>>}

NextClip ==
    \/ Initialize(8, 6, {})
    \/ \E size \in ScreenSizes : SetScreenSize(size[1], size[2])
    \/ \E bounds \in ClipBounds : Len(scissorStack) < MaxDepth /\ BeginContainer(bounds)
    \/ EndContainer
    \/ /\ Len(objects) < MaxSmallPool
       /\ AddRect(UnitBounds, White, 0, 0, FullUv, 0, NoColor)
    \/ \E id \in 1..MaxSmallPool : SetObjectRotation(id, 90)
    \/ \E id \in 1..MaxSmallPool : SetObjectBorder(id, 1, White)
    \/ Render(0)

SpecClip == Init /\ [][NextClip]_vars

\* the calls C5 says leave the clip rectangle of every pooled object alone
ClipKeepers ==
    {"BeginContainer", "EndContainer", "SetScreenSize", "Render",
     "SetObjectCornerRadius", "SetObjectRotation", "SetObjectRotationOrigin",
     "SetObjectRotationAndOrigin", "SetObjectElevation", "SetObjectShader",
     "SetObjectUniform", "SetObjectBorder"}

\* C5: the clip rectangle Add* stores on the object is the top of the clip stack at
\* the moment of the call, the full-screen rectangle of the current screen size
\* when the stack is empty; and no later BeginContainer, EndContainer, Set*,
\* SetScreenSize or Render changes the clip rectangle of a pooled object.
C5_ClipFixedAtInsertion ==
    [][/\ (call'.op \in AddOps /\ call'.ret # 0) =>
            /\ objects'[Len(objects')].id = call'.ret
            /\ objects'[Len(objects')].scissorRect =
                  IF scissorStack # <<>> THEN scissorStack[Len(scissorStack)]
                  ELSE RectF(0, 0, screenWidth, screenHeight)
       /\ call'.op \in ClipKeepers =>
            \A id \in DOMAIN objectIdToIndex :
               /\ FindObject(id)' # 0
               /\ objects'[FindObject(id)'].scissorRect
                     = objects[FindObject(id)].scissorRect]_vars

\* an object inserted inside a container still has that container's clip after
\* the container was closed and the frame rendered
C5_ClipOutlivesContainer ==
    /\ Rendered
    /\ scissorStack = <<>>
    /\ \E i \in 1..Len(objects) : objects[i].scissorRect = RectF(MaxCoord, MaxCoord, 3, 3)

\* C6: however BeginContainer calls nest, the clip rectangle each pushes is no
\* wider and no taller than that of any enclosing container, and every rectangle
\* on the clip stack has width >= 0 and height >= 0.
C6_NestedClipShrinks ==
    \A j \in 1..Len(scissorStack) :
        /\ scissorStack[j].w >= 0 /\ scissorStack[j].h >= 0
        /\ \A i \in 1..(j - 1) :
              /\ scissorStack[j].w <= scissorStack[i].w
              /\ scissorStack[j].h <= scissorStack[i].h

(***************************************************************************)
(* Specification SpecIds: the three id counters, over objects, fonts and   *)
(* custom shaders that are created and destroyed.                          *)
(***************************************************************************)
\* the string "A"
TextA == [null |-> FALSE, bytes |-> <<65>>, beyond |-> <<>>]

NextIds ==
    \/ Initialize(8, 6, {})
    \/ Shutdown
    \/ Clear
    \/ CanAddDraw /\ AddRect(UnitBounds, White, 0, 0, FullUv, 0, NoColor)
    \/ \E fontId \in 1..MaxFonts :
          CanAddDraw /\ DrawText(fontId, TextA, Vec2(0, 0), White, 0, 0, Vec2(0, 0))
    \/ \E id \in 1..MaxObjectId : RemoveObject(id)
    \/ \E ok \in BOOLEAN, tex \in TexNames :
          nextFontId <= MaxFonts /\ LoadFont(ok, 2, tex)
    \/ \E fontId \in 1..MaxFonts : DeleteFont(fontId)
    \/ \E ok \in BOOLEAN :
          nextCustomShaderId < FirstCustomShaderId + MaxCustomShaders /\ CreateShader(ok)
    \/ \E k \in 0..(MaxCustomShaders - 1) : DeleteShader(FirstCustomShaderId + k)

SpecIds == Init /\ [][NextIds]_vars

StrictlyIncreasing(s) == \A i, j \in 1..Len(s) : i < j => s[i] < s[j]

\* C3: every object id issued by Add* (and by DrawText), every font id issued by
\* LoadFont and every custom shader id issued by CreateShader is non-zero and
\* greater than every id of its kind issued earlier since Initialize, so no id is
\* issued twice, also after RemoveObject, Clear, DeleteFont or DeleteShader; and
\* the id a successful call returns is the one just issued.
C3_IdsNeverReused ==
    /\ \A kind \in {"object", "font", "shader"} :
          /\ StrictlyIncreasing(issued[kind])
          /\ \A i \in 1..Len(issued[kind]) : issued[kind][i] # 0
    /\ (call.op \in AddOps /\ call.ret # 0) => call.ret = Last(issued.object)
    /\ (call.op = "LoadFont" /\ call.ret # 0) => call.ret = Last(issued.font)
    /\ (call.op = "CreateShader" /\ call.ret # 0) => call.ret = Last(issued.shader)

\* AddRect returned id 3 into a pool from which ids 1 and 2 were removed or cleared
\* before; a second font and a second shader were issued and the first ones deleted
C3_IssuedAfterRemoval ==
    /\ call.op = "AddRect" /\ call.ret = 3
    /\ Len(objects) = 1
    /\ issued.font = <<1, 2>> /\ DOMAIN fonts = {2}
    /\ issued.shader = <<FirstCustomShaderId, FirstCustomShaderId + 1>>
    /\ FirstCustomShaderId \notin DOMAIN shaders

(***************************************************************************)
(* Specification SpecOff: the whole API called on an engine that is not    *)
(* initialized, before Initialize and after the Shutdown of an engine that *)
(* held an object and textures.                                            *)
(***************************************************************************)
CanAddOff == Len(objects) < MaxSmallPool /\ nextObjectId <= MaxObjectId

NextOff ==
    \/ Initialize(8, 6, {})
    \/ Shutdown
    \/ CanAddOff /\ AddRect(UnitBounds, White, 0, 0, FullUv, 0, NoColor)
    \/ \E ok \in BOOLEAN, tex \in TexNames : LoadTexture(ok, tex, 4, 4)
    \/ \E textureId \in 0..MaxTexName : DeleteTexture(textureId)
    \/ ~initialized /\ Clear
    \/ ~initialized /\ SetScreenSize(4, 4)
    \/ ~initialized /\ AddRoundedRect(UnitBounds, Vec2(4, 2), White, 1, 0, FALSE, 0, 0,
                                      FullUv, 0, NoColor)
    \/ ~initialized /\ AddCircle(UnitBounds, White, 1, 0, FALSE, 0, 0, 0, NoColor)
    \/ ~initialized /\ AddLine(Vec2(0, 0), Vec2(4, 0), White, 2, "Straight", <<>>, 0)
    \/ \E id \in 0..MaxObjectId : ~initialized /\ RemoveObject(id)
    \/ \E id \in 0..MaxObjectId : ~initialized /\ SetObjectCornerRadius(id, 2)
    \/ \E id \in 0..MaxObjectId : ~initialized /\ SetObjectRotation(id, 90)
    \/ \E id \in 0..MaxObjectId : ~initialized /\ SetObjectRotationOrigin(id, Vec2(0, 0))
    \/ \E id \in 0..MaxObjectId :
          ~initialized /\ SetObjectRotationAndOrigin(id, 90, Vec2(0, 0))
    \/ \E id \in 0..MaxObjectId : ~initialized /\ SetObjectElevation(id, 1)
    \/ \E id \in 0..MaxObjectId : ~initialized /\ SetObjectShader(id, FirstCustomShaderId)
    \/ \E id \in 0..MaxObjectId :
          ~initialized /\ SetObjectUniform(id, "blur", "FLOAT", <<1>>)
    \/ \E id \in 0..MaxObjectId : ~initialized /\ SetObjectBorder(id, 1, White)
    \/ \E ok \in BOOLEAN, tex \in TexNames : ~initialized /\ LoadFont(ok, 2, tex)
    \/ \E fontId \in 0..MaxFonts :
          ~initialized /\ DrawText(fontId, TextA, Vec2(0, 0), White, 0, 0, Vec2(0, 0))
    \/ \E fontId \in 0..MaxFonts : ~initialized /\ GetTextSize(fontId, TextA)
    \/ \E fontId \in 0..MaxFonts : ~initialized /\ DeleteFont(fontId)
    \/ \E ok \in BOOLEAN : ~initialized /\ CreateShader(ok)
    \/ \E shaderId \in {1, FirstCustomShaderId} : ~initialized /\ DeleteShader(shaderId)
    \/ ~initialized /\ BeginContainer(RectF(0, 0, 3, 3))
    \/ ~initialized /\ EndContainer
    \/ ~initialized /\ Render(0)

SpecOff == Init /\ [][NextOff]_vars

\* C10: before Initialize and after Shutdown every operation of the API (but
\* Initialize) is a no-op: the engine stays uninitialized, no field of the scene
\* and no GPU state (no GL command, no texture) changes, and what the call returns
\* is the sentinel (id 0, zero size).
C10_NoOpWhenUninitialized ==
    [][(~initialized /\ call'.op # "Initialize") =>
          /\ ~initialized'
          /\ engine' = engine
          /\ glTextures' = glTextures
          /\ glLog' = <<>>
          /\ call'.ret = 0 /\ call'.w = 0 /\ call'.h = 0]_vars

(***************************************************************************)
(* Specification SpecSet: RemoveObject and every Set* call, on ids that    *)
(* are live and on ids that never were, were removed or were cleared.      *)
(***************************************************************************)
NextSet ==
    \/ Initialize(8, 6, {})
    \/ Clear
    \/ CanAddOff /\ AddRect(UnitBounds, White, 0, 0, FullUv, 0, NoColor)
    \/ CanAddOff /\ AddRoundedRect(UnitBounds, Vec2(4, 2), White, 1, 0, FALSE, 0, 0,
                                   FullUv, 0, NoColor)
    \/ \E id \in 0..MaxObjectId : RemoveObject(id)
    \/ \E id \in 0..MaxObjectId : SetObjectCornerRadius(id, 2)
    \/ \E id \in 0..MaxObjectId : SetObjectRotation(id, 90)
    \/ \E id \in 0..MaxObjectId : SetObjectRotationOrigin(id, Vec2(0, 0))
    \/ \E id \in 0..MaxObjectId : SetObjectRotationAndOrigin(id, 90, Vec2(0, 0))
    \/ \E id \in 0..MaxObjectId, e \in 0..1 : SetObjectElevation(id, e)
    \/ \E id \in 0..MaxObjectId, sid \in {0, UnregisteredShader} : SetObjectShader(id, sid)
    \/ \E id \in 0..MaxObjectId : SetObjectUniform(id, "blur", "FLOAT", <<1>>)
    \/ \E id \in 0..MaxObjectId : SetObjectBorder(id, 1, White)
    \/ Render(0)

SpecSet == Init /\ [][NextSet]_vars

\* no pooled object has the id
NotLive(id) == \A i \in 1..Len(objects) : objects[i].id # id

\* the pooled object that has the id
Live(id) == objects[CHOOSE i \in 1..Len(objects) : objects[i].id = id]

\* C11: RemoveObject and every Set* call (corner radius, rotation, rotation
\* origin, rotation and origin, elevation, shader, uniform, border) given an id
\* that no pooled object has (never issued, removed, or dropped by Clear) leaves
\* the pool, every object in it, the id->index map and the needs-sort flag as
\* they were.
C11_UnknownIdIgnored ==
    [][\A id \in 0..MaxObjectId :
          (/\ NotLive(id)
           /\ \/ RemoveObject(id)
              \/ SetObjectCornerRadius(id, 2)
              \/ SetObjectRotation(id, 90)
              \/ SetObjectRotationOrigin(id, Vec2(0, 0))
              \/ SetObjectRotationAndOrigin(id, 90, Vec2(0, 0))
              \/ \E e \in 0..1 : SetObjectElevation(id, e)
              \/ \E sid \in {0, UnregisteredShader} : SetObjectShader(id, sid)
              \/ SetObjectUniform(id, "blur", "FLOAT", <<1>>)
              \/ SetObjectBorder(id, 1, White))
          => /\ objects' = objects
             /\ objectIdToIndex' = objectIdToIndex
             /\ needsSort' = needsSort]_vars

\* SetObjectRotation was called while the pool held only object 2, id 1 being gone:
\* the object is still unrotated, so the call named an id that is not live
C11_StaleIdAfterRemoval ==
    /\ call.op = "SetObjectRotation"
    /\ issued.object = <<1, 2>>
    /\ Len(objects) = 1 /\ objects[1].id = 2
    /\ objects[1].rotation = 0

\* C16: SetObjectElevation on a live id always sets the needs-sort flag;
\* SetObjectShader on a live id stores the shader id and sets the flag when the
\* id differs from the object's current one, and otherwise leaves the flag and
\* the pool unchanged.
C16_DirtyOnElevationAndShader ==
    [][\A id \in 1..MaxObjectId : ~NotLive(id) =>
          /\ \A e \in 0..1 : SetObjectElevation(id, e) => needsSort'
          /\ \A sid \in {0, UnregisteredShader} : SetObjectShader(id, sid) =>
                IF Live(id).shaderId # sid
                THEN needsSort' /\ Live(id)'.shaderId = sid
                ELSE needsSort' = needsSort /\ objects' = objects]_vars

\* right after a SetObjectElevation the pool is dirty; the object carries the
\* elevation and a shader override set before
C16_DirtyAfterElevation ==
    /\ call.op = "SetObjectElevation"
    /\ needsSort
    /\ Len(objects) = 1 /\ objects[1].elevation = 1 /\ objects[1].shaderId = UnregisteredShader

(***************************************************************************)
(* Specification SpecContainer: shapes of every kind added inside nested   *)
(* containers whose origin is not the screen's, with Clear and             *)
(* EndContainer called at any depth.                                       *)
(***************************************************************************)
ContainerBounds == {RectF(1, 1, 6, 4), RectF(MaxCoord, MaxCoord, 3, 3)}

ShapeBounds == {UnitBounds, RectF(1, 2, 3, 4)}

NextContainer ==
    \/ Initialize(8, 6, {})
    \/ Clear
    \/ \E bounds \in ContainerBounds :
          Len(scissorStack) < MaxDepth /\ BeginContainer(bounds)
    \/ EndContainer
    \/ \E b \in ShapeBounds : CanAddOff /\ AddRect(b, White, 0, 0, FullUv, 0, NoColor)
    \/ \E b \in ShapeBounds :
          CanAddOff /\ AddRoundedRect(b, Vec2(4, 2), White, 1, 0, FALSE, 0, 0, FullUv,
                                      0, NoColor)
    \/ \E b \in ShapeBounds : CanAddOff /\ AddCircle(b, White, 1, 0, FALSE, 0, 0, 0, NoColor)
    \/ CanAddOff /\ AddLine(Vec2(0, 0), Vec2(4, 0), White, 2, "Straight", <<>>, 0)
    \/ \E id \in 1..MaxObjectId : RemoveObject(id)

SpecContainer == Init /\ [][NextContainer]_vars

\* a sequence without its last element
Front(s) == SubSeq(s, 1, Len(s) - 1)

\* C12: EndContainer removes exactly the top entry of the clip stack and of the
\* container-offset stack (the two are equally deep) and touches nothing else;
\* called when the stacks are empty it changes nothing and returns normally.
C12_EndContainerPops ==
    [][call'.op = "EndContainer" =>
          /\ call'.ret = 0
          /\ IF scissorStack = <<>> /\ containerStack = <<>>
             THEN engine' = engine
             ELSE /\ Len(scissorStack) = Len(containerStack)
                  /\ scissorStack' = Front(scissorStack)
                  /\ containerStack' = Front(containerStack)
                  /\ UNCHANGED <<initialized, screenWidth, screenHeight, objects,
                                 objectIdToIndex, nextObjectId, needsSort>>]_vars

\* EndContainer closed the inner of two containers: the frame of the outer one,
\* opened at (MaxCoord, MaxCoord), is on top of both stacks again
C12_ParentFrameRestored ==
    /\ call.op = "EndContainer"
    /\ Len(scissorStack) = 1 /\ Len(containerStack) = 1
    /\ scissorStack[1] = RectF(MaxCoord, MaxCoord, 3, 3)
    /\ containerStack[1] = Vec2(MaxCoord, MaxCoord)

\* C13: Clear on an initialized engine leaves the pool, the id->index map, the
\* clip stack and the container-offset stack empty, whatever containers were
\* open; FindObject then finds nothing for any id issued before, and an Add* that
\* directly follows the Clear stores the full-screen rectangle as its clip.
C13_ClearResets ==
    [][/\ (initialized /\ call'.op = "Clear") =>
            /\ objects' = <<>>
            /\ DOMAIN objectIdToIndex' = {}
            /\ scissorStack' = <<>>
            /\ containerStack' = <<>>
            /\ \A i \in 1..Len(issued.object) : FindObject(issued.object[i])' = 0
       /\ (initialized /\ call.op = "Clear" /\ call'.op \in AddOps /\ call'.ret # 0) =>
            objects'[Len(objects')].scissorRect = RectF(0, 0, screenWidth, screenHeight)]_vars

\* an object was issued before, the pool was emptied, and the Add* that came
\* next has the full screen as its clip
C13_FullScreenAfterClear ==
    /\ call.op \in AddOps /\ call.ret = 2
    /\ issued.object = <<1, 2>>
    /\ Len(objects) = 1
    /\ objects[1].scissorRect = RectF(0, 0, 8, 6)
    /\ scissorStack = <<>> /\ containerStack = <<>>

ShaderIds == 0..(FirstCustomShaderId + MaxCustomShaders)

NextShaders ==
    \/ \E failed \in {{}, {1}} : Initialize(8, 6, failed)
    \/ Shutdown
    \/ \E ok \in BOOLEAN :
          nextCustomShaderId < FirstCustomShaderId + MaxCustomShaders /\ CreateShader(ok)
    \/ \E shaderId \in ShaderIds : DeleteShader(shaderId)
    \/ CanAddOff /\ AddRect(UnitBounds, White, 0, 0, FullUv, 0, NoColor)
    \/ \E id \in 1..MaxObjectId, sid \in {0, FirstCustomShaderId} : SetObjectShader(id, sid)
    \/ Render(0)

SpecShaders == Init /\ [][NextShaders]_vars

\* C15: Initialize registers the shader ids 1 to 5 and no call before Shutdown
\* unregisters one or changes its program; DeleteShader with an id below 100
\* changes nothing at all, and every id CreateShader returns is >= 100.
C15_BuiltinsStayRegistered ==
    [][/\ initialized' => \A i \in 1..5 : i \in DOMAIN shaders'
       /\ (initialized /\ initialized') => \A i \in 1..5 : shaders'[i] = shaders[i]
       /\ \A shaderId \in 0..99 :
             DeleteShader(shaderId) => (engine' = engine /\ glLog' = <<>>)
       /\ (call'.op = "CreateShader" /\ call'.ret # 0) =>
             (call'.ret >= 100 /\ call'.ret \in DOMAIN shaders')]_vars

\* two custom shaders were created and the first one deleted again: the registry
\* holds the five built-ins and the second custom shader
C15_CustomDeletedBuiltinsKept ==
    /\ call.op = "DeleteShader"
    /\ initialized
    /\ issued.shader = <<100, 101>>
    /\ DOMAIN shaders = (1..5) \cup {101}

(***************************************************************************)
(* Specification SpecText: DrawText over fonts that are loaded and         *)
(* deleted, with texts of one-, two- and three-byte sequences, of          *)
(* codepoints the atlas holds and of codepoints it does not.               *)
(***************************************************************************)
\* "" ; "A" followed by U+0431 ; "A", line feed, "B" ; U+20AC
TextEmpty == [null |-> FALSE, bytes |-> <<>>, beyond |-> <<>>]
TextCyrillic == [null |-> FALSE, bytes |-> <<65, 208, 177>>, beyond |-> <<>>]
TextLines == [null |-> FALSE, bytes |-> <<65, 10, 66>>, beyond |-> <<>>]
TextEuro == [null |-> FALSE, bytes |-> <<226, 130, 172>>, beyond |-> <<>>]

Texts == {TextEmpty, TextA, TextCyrillic, TextLines, TextEuro}

\* the codepoints each of the texts encodes
Codepoints(text) ==
    CASE text = TextEmpty -> <<>>
      [] text = TextA -> <<65>>
      [] text = TextCyrillic -> <<65, 1073>>
      [] text = TextLines -> <<65, 10, 66>>
      [] text = TextEuro -> <<8364>>

\* room in the pool, and in the ids, for the glyphs of the longest text
CanAddText == Len(objects) + 2 <= MaxObjects /\ nextObjectId + 1 <= MaxObjectId

NextText ==
    \/ Initialize(8, 6, {})
    \/ Clear
    \/ \E ok \in BOOLEAN, tex \in TexNames : nextFontId <= MaxFonts /\ LoadFont(ok, 2, tex)
    \/ \E fontId \in 0..MaxFonts : DeleteFont(fontId)
    \/ \E fontId \in 0..MaxFonts, text \in Texts :
          CanAddText /\ DrawText(fontId, text, Vec2(0, 0), White, 0, 0, Vec2(0, 0))
    \/ \E id \in 1..MaxObjectId : RemoveObject(id)

SpecText == Init /\ [][NextText]_vars

\* the codepoint has a glyph in the atlas: U+0020..U+007F and U+0400..U+04FF
InAtlas(c) == (c >= 32 /\ c < 128) \/ (c >= 1024 /\ c <= 1279)

\* the slot of the codepoint's glyph in the atlas
AtlasSlot(c) == IF c < 128 THEN c - 32 ELSE 96 + (c - 1024)

\* DrawText appended, in order, one Glyph object for each of the codepoints cps,
\* each with the next unused id, and left the rest of the pool alone
GlyphsAppended(cps) ==
    /\ Len(objects') = Len(objects) + Len(cps)
    /\ SubSeq(objects', 1, Len(objects)) = objects
    /\ \A k \in 1..Len(cps) :
          /\ objects'[Len(objects) + k].type = "Glyph"
          /\ objects'[Len(objects) + k].uvRect.x = AtlasSlot(cps[k])
          /\ objects'[Len(objects) + k].id = nextObjectId + k - 1
          /\ \A i \in 1..Len(issued.object) :
                issued.object[i] # objects'[Len(objects) + k].id

\* C17 as the code has it: DrawText with a loaded font adds one Glyph object for
\* each decoded codepoint that the atlas holds (U+0020..U+007F, U+0400..U+04FF),
\* in text order, each with a fresh id, and no object for any other codepoint;
\* with an unknown font id it adds nothing.
C17_GlyphPerAtlasCodepoint ==
    [][\A fontId \in 0..MaxFonts, text \in Texts :
          (initialized /\ DrawText(fontId, text, Vec2(0, 0), White, 0, 0, Vec2(0, 0))) =>
             IF fontId \in DOMAIN fonts
             THEN GlyphsAppended(SelectSeq(Codepoints(text), InAtlas))
             ELSE objects' = objects /\ nextObjectId' = nextObjectId]_vars

\* the text "A", line feed, "B" was drawn into an empty pool: two glyphs, those
\* of "A" and "B", for three codepoints
C17_LineFeedSkipped ==
    /\ call.op = "DrawText"
    /\ Len(objects) = 2
    /\ objects[1].type = "Glyph" /\ objects[1].uvRect.x = 33
    /\ objects[2].type = "Glyph" /\ objects[2].uvRect.x = 34
    /\ objects[2].id = objects[1].id + 1

\* C17 as stated: DrawText with a loaded font adds exactly one Glyph object per
\* codepoint decoded from the text.
C17_GlyphPerCodepoint ==
    [][\A fontId \in 0..MaxFonts, text \in Texts :
          (/\ initialized /\ fontId \in DOMAIN fonts
           /\ DrawText(fontId, text, Vec2(0, 0), White, 0, 0, Vec2(0, 0)))
          => Len(objects') = Len(objects) + Len(Codepoints(text))]_vars

(***************************************************************************)
(* Specification SpecShadow: the shadow pass over shapes of every kind     *)
(* with elevations that have a preset (1, 2), have an empty one (0) or     *)
(* have none (6).                                                          *)
(***************************************************************************)
ShadowElevations == {0, 1, 2, 6}

NextShadow ==
    \/ Initialize(8, 6, {})
    \/ CanAddDraw /\ AddRect(UnitBounds, White, 0, 0, FullUv, 0, NoColor)
    \/ CanAddDraw /\ AddRoundedRect(UnitBounds, Vec2(4, 2), White, 1, 0, FALSE, 0, 0,
                                    FullUv, 0, NoColor)
    \/ CanAddDraw /\ AddCircle(UnitBounds, White, 1, 0, FALSE, 0, 0, 0, NoColor)
    \/ CanAddDraw /\ AddLine(Vec2(0, 0), Vec2(4, 0), White, 2, "Straight", <<>>, 0)
    \/ \E id \in 1..MaxObjectId, e \in ShadowElevations : SetObjectElevation(id, e)
    \/ \E id \in 1..MaxObjectId : RemoveObject(id)
    \/ Render(0)

SpecShadow == Init /\ [][NextShadow]_vars

\* the vertex uploads of the shadow pass (one per group) and its composites (one
\* per group, carrying the group's blur radius)
IsShadowBuffer(e) == e.cmd = "glBufferData" /\ e.target = "shadowFBO"
ShadowBuffers == SelectSeq(glLog, IsShadowBuffer)
IsComposite(e) == e.cmd = "composite"
Composites == SelectSeq(glLog, IsComposite)

\* the (object, layer) pairs that are to give a clone: the object is visible, of
\* type Rect, RoundedRect or Circle, with an elevation >= 1 that has a preset
LayerPairs ==
    {p \in (1..Len(objects)) \X (1..3) :
        /\ objects[p[1]].visible
        /\ objects[p[1]].elevation >= 1
        /\ objects[p[1]].type \in {"Rect", "RoundedRect", "Circle"}
        /\ objects[p[1]].elevation \in DOMAIN ShadowPresets
        /\ p[2] <= Len(ShadowPresets[objects[p[1]].elevation])}

\* the blur radius of the layer of such a pair
RadiusOf(p) == ShadowPresets[objects[p[1]].elevation][p[2]].blurRadius

RadiiInUse == {RadiusOf(p) : p \in LayerPairs}

\* C18: in each Render the shadow pass makes one clone (a quad of six vertices)
\* per preset layer of every visible Rect, RoundedRect or Circle whose elevation
\* is >= 1 and has a registered preset, and none for any other object; the clones
\* are grouped by the blur radius of their layer, one group per distinct radius
\* in use, in ascending order of radius; a lone elevation-1 Rect gives 3 clones in
\* at most 3 groups.
C18_ClonePerLayerGroupedByRadius ==
    Rendered =>
        /\ Len(ShadowBuffers) = Cardinality(RadiiInUse)
        /\ Len(Composites) = Cardinality(RadiiInUse)
        /\ {Composites[g].arg : g \in 1..Len(Composites)} = RadiiInUse
        /\ \A g, k \in 1..Len(Composites) : g < k => Composites[g].arg < Composites[k].arg
        /\ \A g \in 1..Len(ShadowBuffers) :
              ShadowBuffers[g].count =
                 6 * Cardinality({p \in LayerPairs : RadiusOf(p) = Composites[g].arg})
        /\ \A k \in 1..Len(glLog) :
              (glLog[k].cmd = "glDrawArrays" /\ glLog[k].target = "shadowFBO") =>
                 \E p \in LayerPairs : objects[p[1]].id = glLog[k].obj
        /\ (Len(objects) = 1 /\ objects[1].type = "Rect" /\ objects[1].elevation = 1) =>
              /\ SumSeq([g \in 1..Len(ShadowBuffers) |-> ShadowBuffers[g].count]) = 3 * 6
              /\ Len(ShadowBuffers) <= 3

\* a frame over a shape of elevation 1 and one of elevation 2: six clones in the
\* four groups of the radii 1, 2, 3 and 5, three of them in the group of radius 1
C18_SixClonesFourGroups ==
    /\ Rendered
    /\ Len(objects) = 2
    /\ Len(Composites) = 4
    /\ Composites[1].arg = 1 /\ ShadowBuffers[1].count = 3 * 6
    /\ SumSeq([g \in 1..Len(ShadowBuffers) |-> ShadowBuffers[g].count]) = 6 * 6

(***************************************************************************)
(* Specification SpecLine: AddLine over straight and curved lines with     *)
(* zero, one and two control points, with end points left of, right of and *)
(* equal to the start, and control points outside the span of the two.     *)
(***************************************************************************)
LineStarts == {Vec2(0, 0), Vec2(2, 2)}
LineEnds == {Vec2(100, 0), Vec2(4, 2), Vec2(0, 0)}
LineControls == {<<>>, <<Vec2(1, 3)>>, <<Vec2(1, 3), Vec2(5, -1)>>}
LineWidths == {2, 4}
LineModes == {"Straight", "Curved"}

NextLine ==
    \/ Initialize(8, 6, {})
    \/ Clear
    \/ \E start \in LineStarts, end \in LineEnds, width \in LineWidths,
          mode \in LineModes, controls \in LineControls :
          CanAddOff /\ AddLine(start, end, White, width, mode, controls, 0)
    \/ \E id \in 1..MaxObjectId : RemoveObject(id)

SpecLine == Init /\ [][NextLine]_vars

\* the object the call just stored
Newest == objects[Len(objects)]

\* the least and the greatest element of a non-empty set of numbers
Least(S) == CHOOSE v \in S : \A w \in S : v <= w
Greatest(S) == CHOOSE v \in S : \A w \in S : w <= v

\* the rectangle spanned by the points of pts, grown by half of width (both in
\* units of 1/den) on every side
Extent(pts, width) ==
    LET xs == {pts[i].x : i \in 1..Len(pts)}
        ys == {pts[i].y : i \in 1..Len(pts)}
    IN  RectF(Least(xs) - width \div 2, Least(ys) - width \div 2,
              Greatest(xs) - Least(xs) + width, Greatest(ys) - Least(ys) + width)

\* the most recent call was an AddLine that stored a line
LineAdded == call.op = "AddLine" /\ call.ret # 0 /\ Newest.id = call.ret

\* C19: AddLine stores triCount = 2 x segment count. A Straight line has one
\* segment less than it has points [start, controls..., end]; a Curved line has
\* one segment less than it has tessellated samples, NumPerSegment for each
\* stretch of its control polygon. In both modes the count is that of the point
\* sequence RenderObjects builds the quads over.
C19_TriCountTwicePerSegment ==
    LineAdded =>
        /\ Newest.type = "Line"
        /\ Newest.lineMode = "Straight" =>
              Newest.triCount = 2 * ((Len(Newest.controlPoints) + 2) - 1)
        /\ (Newest.lineMode = "Straight" /\ Newest.controlPoints = <<>>) =>
              Newest.triCount = 2
        /\ Newest.lineMode = "Curved" =>
              Newest.triCount =
                 2 * (20 * (IF Newest.controlPoints = <<>> /\ Newest.start # Newest.end
                            THEN 2 ELSE Len(Newest.controlPoints) + 1) - 1)
        /\ Newest.triCount = 2 * (Len(LinePoints(Newest)) - 1)

\* a Curved line without control points between two distinct points was added:
\* two stretches (through the synthesized midpoint) of 20 samples, 39 segments
C19_CurvedThroughMidpoint ==
    /\ LineAdded
    /\ Newest.lineMode = "Curved" /\ Newest.controlPoints = <<>>
    /\ Newest.start # Newest.end
    /\ Newest.triCount = 78

\* C20: the bounds AddLine stores are the extent of the sample points of the line
\* (the points [start, controls..., end] of a Straight line, the tessellated
\* samples of a Curved one) grown by half the stroke width on every side:
\* x = minX - width/2, y = minY - width/2, w = maxX - minX + width,
\* h = maxY - minY + width; start (0,0), end (100,0), width 4, Straight, no
\* controls gives {-2, -2, 104, 4}.
C20_BoundsAreGrownExtent ==
    LineAdded =>
        /\ Newest.lineMode = "Straight" =>
              /\ Newest.boundsDen = 1
              /\ Newest.bounds =
                    Extent(<<Newest.start>> \o Newest.controlPoints \o <<Newest.end>>,
                           Newest.lineWidth)
        /\ Newest.lineMode = "Curved" =>
              Newest.bounds = Extent(LinePoints(Newest), Newest.boundsDen * Newest.lineWidth)
        /\ (/\ Newest.start = Vec2(0, 0) /\ Newest.end = Vec2(100, 0)
            /\ Newest.lineWidth = 4 /\ Newest.lineMode = "Straight"
            /\ Newest.controlPoints = <<>>)
           => Newest.bounds = RectF(-2, -2, 104, 4)

\* the line from (0,0) to (100,0) of width 4 was added
C20_ExampleLine ==
    /\ LineAdded
    /\ Newest.lineMode = "Straight" /\ Newest.controlPoints = <<>>
    /\ Newest.start = Vec2(0, 0) /\ Newest.end = Vec2(100, 0) /\ Newest.lineWidth = 4
    /\ Newest.bounds = RectF(-2, -2, 104, 4)

\* C21: for every Curved line, with any number of control points (none included,
\* where a midpoint is synthesized when start and end differ), the point sequence
\* the quads are built over is not empty and its last sample is the line's
\* literal end point.
C21_LastSampleIsEnd ==
    \A i \in 1..Len(objects) :
        (objects[i].type = "Line" /\ objects[i].lineMode = "Curved") =>
            \A pts \in {LinePoints(objects[i])} :
                /\ pts # <<>>
                /\ pts[Len(pts)] = Vec2(CurveDen * objects[i].end.x,
                                        CurveDen * objects[i].end.y)

\* a Curved line with two control points, the last of them away from the end
\* point, is in the pool: three stretches of 20 samples
C21_CurvedWithControls ==
    /\ LineAdded
    /\ Newest.lineMode = "Curved"
    /\ Len(Newest.controlPoints) = 2
    /\ Newest.controlPoints[2] # Newest.end
    /\ Len(LinePoints(Newest)) = 60

\* C22: on an initialized engine every structural mutation of the pool sets the
\* needs-sort flag: each Add* that stores an object, each RemoveObject of a live
\* id, and Clear.
C22_StructuralMutationDirties ==
    [][initialized =>
          /\ (call'.op \in AddOps /\ call'.ret # 0) => needsSort'
          /\ \A id \in 1..MaxObjectId :
                (FindObject(id) # 0 /\ RemoveObject(id)) => needsSort'
          /\ call'.op = "Clear" => needsSort']_vars

(***************************************************************************)
(* Specification SpecStroke: frames over pools that mix Rects and Lines.   *)
(* The lines differ in stroke width and curve mode, one has no length, one *)
(* repeats a control point; a Rect may be given the Line shader, so that   *)
(* Lines and non-Lines meet with the same z-index, shader and texture.     *)
(***************************************************************************)
Stroke(start, end, width, mode, controls) ==
    [start |-> start, end |-> end, width |-> width, mode |-> mode, controls |-> controls]

Strokes ==
    { Stroke(Vec2(0, 0), Vec2(4, 0), 2, "Straight", <<>>),
      Stroke(Vec2(0, 0), Vec2(4, 0), 4, "Straight", <<>>),
      Stroke(Vec2(2, 2), Vec2(2, 2), 2, "Straight", <<>>),
      Stroke(Vec2(0, 0), Vec2(4, 0), 2, "Straight", <<Vec2(1, 3), Vec2(1, 3)>>),
      Stroke(Vec2(0, 0), Vec2(4, 0), 2, "Curved", <<>>) }

\* the model's cap on the pool and on the ids of this specification
CanAddStroke == Len(objects) < MaxObjects /\ nextObjectId <= MaxObjects

NextStroke ==
    \/ Initialize(8, 6, {})
    \/ \E z \in 0..1 : CanAddStroke /\ AddRect(UnitBounds, White, z, 0, FullUv, 0, NoColor)
    \/ \E s \in Strokes :
          CanAddStroke /\ AddLine(s.start, s.end, White, s.width, s.mode, s.controls, 1)
    \/ \E id \in 1..MaxObjects, sid \in {0, LineShaderId} : SetObjectShader(id, sid)
    \/ \E id \in 1..MaxObjects : RemoveObject(id)
    \/ Render(0)

SpecStroke == Init /\ [][NextStroke]_vars

\* C23: the comparator of Render's sort is a strict weak order on every pool the
\* API can build (irreflexive, transitive, with a transitive incomparability),
\* pools that hold Lines and non-Lines of the same z-index, effective shader and
\* texture included.
C23_ComparatorStrictWeak ==
    \A L \in {LessMatrix(objects)} : StrictWeak(L, Len(objects))

\* C24: while the engine lives, the needs-sort flag goes from set to clear only
\* in a Render, and then the whole pool is sorted (the same objects, none less
\* than one before it) and the id->index entry of every pooled object is its
\* new index; no other call clears the flag, and a Render that finds the flag
\* clear leaves the pool order and the map as they were.
C24_ClearedOnlyBySortingRender ==
    [][/\ (initialized' /\ needsSort /\ ~needsSort') =>
            /\ call'.op = "Render"
            /\ Len(objects') = Len(objects)
            /\ {objects'[i] : i \in 1..Len(objects')} = {objects[i] : i \in 1..Len(objects)}
            /\ \A i, j \in 1..Len(objects') : i < j => ~Less(objects'[j], objects'[i])
            /\ DOMAIN objectIdToIndex' = {objects'[i].id : i \in 1..Len(objects')}
            /\ \A i \in 1..Len(objects') : objectIdToIndex'[objects'[i].id] = i
       /\ (call'.op = "Render" /\ ~needsSort) =>
            /\ objects' = objects
            /\ objectIdToIndex' = objectIdToIndex
            /\ ~needsSort']_vars

\* a Render has left a clean pool in which an object added later (and of lower
\* z-index) stands before one added earlier, the map following the new order
C24_SortedAndRemapped ==
    /\ call.op = "Render" /\ glLog # <<>>
    /\ ~needsSort
    /\ Len(objects) = 3
    /\ objects[1].id > objects[2].id /\ objects[1].zIndex < objects[2].zIndex
    /\ \A i \in 1..3 : objectIdToIndex[objects[i].id] = i

\* the pool indices of the objects drawn in the batch whose glUseProgram is
\* command b of the frame: the draws up to the next glUseProgram
BatchMembers(b) ==
    {glLog[d].arg : d \in {d \in (b + 1)..Len(glLog) :
        /\ IsMainDraw(glLog[d])
        /\ \A m \in (b + 1)..d : glLog[m].cmd # "glUseProgram"}}

\* two objects that may share a batch: the same effective shader, texture and
\* clip bytes, and, if both are Lines, the same curve mode and stroke width
Alike(a, b) ==
    /\ EffectiveShader(a) = EffectiveShader(b)
    /\ a.textureId = b.textureId
    /\ RectBytes(a.scissorRect) = RectBytes(b.scissorRect)
    /\ (a.type = "Line" /\ b.type = "Line") =>
          (a.lineMode = b.lineMode /\ a.lineWidth = b.lineWidth)

\* C25: Render partitions the pool into batches: every object is drawn in one
\* batch; all objects of a batch are visible and share effective shader, texture
\* and byte-identical clip, and any two Lines of a batch share curve mode and
\* stroke width; and each batch is maximal: the object after it is not visible
\* or differs from the batch in one of these.
C25_BatchesUniformAndMaximal ==
    Rendered =>
        /\ \A i \in 1..Len(objects) :
              Cardinality({d \in 1..Len(glLog) : IsMainDraw(glLog[d]) /\ glLog[d].arg = i}) = 1
        /\ \A b \in 1..Len(glLog) : IsMainBatch(glLog[b]) =>
              \A members \in {BatchMembers(b)} :
                 /\ members # {}
                 /\ \A i, j \in members :
                       objects[i].visible /\ Alike(objects[i], objects[j])
                 /\ \A nxt \in 2..Len(objects) :
                       (nxt - 1 \in members /\ nxt \notin members) =>
                          ~(objects[nxt].visible
                            /\ \A i \in members : Alike(objects[nxt], objects[i]))

(***************************************************************************)
(* Specification SpecCloak: the shadow of a shape that carries a texture,  *)
(* a border and a shader override and was added inside a container, on a   *)
(* screen whose size changes.                                              *)
(***************************************************************************)
NextCloak ==
    \/ Initialize(8, 6, {})
    \/ SetScreenSize(4, 4)
    \/ Len(scissorStack) < 1 /\ BeginContainer(RectF(1, 1, 3, 3))
    \/ EndContainer
    \/ nextCustomShaderId <= FirstCustomShaderId /\ CreateShader(TRUE)
    \/ \E tex \in 0..1, bw \in 0..1 :
          CanAddOff /\ AddRect(UnitBounds, White, 0, tex, FullUv, bw, White)
    \/ \E tex \in 0..1, bw \in 0..1 :
          CanAddOff /\ AddRoundedRect(UnitBounds, Vec2(4, 2), White, 1, 0, FALSE, 0, tex,
                                      FullUv, bw, White)
    \/ \E tex \in 0..1, bw \in 0..1 :
          CanAddOff /\ AddCircle(UnitBounds, White, 1, 0, FALSE, 0, tex, bw, White)
    \/ \E sid \in {0, FirstCustomShaderId} : SetObjectShader(FirstObjectId, sid)
    \/ SetObjectBorder(FirstObjectId, 2, White)
    \/ \E e \in 0..1 : SetObjectElevation(FirstObjectId, e)
    \/ Render(0)

SpecCloak == Init /\ [][NextCloak]_vars

\* C26: every shadow clone is drawn with no texture, with a border width of 0 in
\* the program, with the built-in shader of its shape type and under the
\* full-screen scissor box of the current screen size, whatever texture, border,
\* shader override and container clip its source object has.
C26_ShadowCloneStripped ==
    Rendered =>
        \A k \in 1..Len(glLog) : glLog[k].target = "shadowFBO" =>
            /\ glLog[k].cmd = "glUniforms" =>
                  /\ ~glLog[k].arg.useTexture
                  /\ glLog[k].arg.texture = 0
                  /\ glLog[k].arg.borderWidth = 0
            /\ glLog[k].cmd \in {"glUseProgram", "glUniforms", "glDrawArrays"} =>
                  \A i \in 1..Len(objects) : objects[i].id = glLog[k].obj =>
                      glLog[k].shader = TypeOrd(objects[i].type) + 1
            /\ glLog[k].cmd = "glScissor" =>
                  glLog[k].arg = RectF(0, 0, screenWidth, screenHeight)

\* objects with the same z-index, effective shader, texture and clip stand in the
\* order they were inserted in (ids grow with every insertion)
TiesInInsertionOrder(objs) ==
    \A i, j \in 1..Len(objs) :
        (/\ i < j
         /\ objs[i].zIndex = objs[j].zIndex
         /\ EffectiveShader(objs[i]) = EffectiveShader(objs[j])
         /\ objs[i].textureId = objs[j].textureId
         /\ RectBytes(objs[i].scissorRect) = RectBytes(objs[j].scissorRect))
        => objs[i].id < objs[j].id

\* the order std::sort leaves is fixed by the pool it is given: its precondition
\* holds (the comparator is a strict weak order on the pool), so that the sort
\* is the same function of its input in every run
SortDetermined(objs) == \A L \in {LessMatrix(objs)} : StrictWeak(L, Len(objs))

C28_DrawRangeIsOwnVertices ==
    Rendered =>
        \A k \in 1..Len(MainDraws) :
            <<MainDraws[k].first, MainDraws[k].count>> = VertexRange(objects, MainDraws[k].arg)

\* C29: in every frame the build loop pushes exactly 3 x triCount vertices for
\* every Line, Straight or Curved: the triangle count AddLine stored, which sizes
\* the draw call, is the number of triangles generated, also for lines with
\* segments of no length.
C29_TriCountIsGenerated ==
    Rendered =>
        \A i \in 1..Len(objects) : objects[i].type = "Line" =>
            /\ VertexCount(objects[i]) = 3 * objects[i].triCount
            /\ DrawCount(objects[i]) = VertexCount(objects[i])

\* C30: Render changes nothing but the order of the pool, the id->index map and
\* the needs-sort flag: the pool holds the same objects after it as before, each
\* with every attribute unchanged, the map has the same ids, no shadow clone is
\* in the pool or the map, and no other field of the engine changes.
C30_RenderKeepsObjects ==
    [][call'.op = "Render" =>
          /\ Len(objects') = Len(objects)
          /\ {objects'[i] : i \in 1..Len(objects')} = {objects[i] : i \in 1..Len(objects)}
          /\ DOMAIN objectIdToIndex' = DOMAIN objectIdToIndex
          /\ \A id \in DOMAIN objectIdToIndex' :
                /\ objectIdToIndex'[id] \in 1..Len(objects')
                /\ objects'[objectIdToIndex'[id]] = objects[objectIdToIndex[id]]
          /\ UNCHANGED <<initialized, screenWidth, screenHeight, shaders,
                         nextCustomShaderId, nextFontId, fonts, nextObjectId,
                         scissorStack, containerStack, glTextures>>]_vars

\* a frame that re-ordered the pool (the Rect added second now stands first) and
\* drew shadow clones of an elevated object whose bounds and colour are as added
C30_SortedFrameWithShadows ==
    /\ Rendered
    /\ Len(objects) = 2
    /\ objects[1].id = 2 /\ objects[2].id = 1
    /\ objects[1].elevation = 1
    /\ objects[1].bounds = UnitBounds /\ objects[1].color = White
    /\ \E k \in 1..Len(glLog) : glLog[k].cmd = "glDrawArrays" /\ glLog[k].target = "shadowFBO"

====
